---- MODULE Spec2Model ----
(***************************************************************************)
(* A model of node-spf-check (src/index.js): the SPF check_host() engine.  *)
(*                                                                         *)
(* The program is asynchronous JavaScript.  Between two DNS round trips a  *)
(* check runs without interruption, so the model has one action for each   *)
(* entry point (the exported function, the constructor, SPF.check,         *)
(* SPF.checkInclude) and one for the callback dns.resolve delivers.        *)
(*                                                                         *)
(* The methods of class SPF are operators that thread a context c through  *)
(* every call, as the JavaScript threads `this` and the promise chain:     *)
(*   c.st    "ok" (returned c.val), "throw" (threw c.err) or "wait" (the   *)
(*           promise of the last lookup of c.log is still pending);        *)
(*   c.cnt   this.queryDNSCount as the running invocation sees it;         *)
(*   c.k     the number of dns.resolve callbacks delivered so far;         *)
(*   c.log   the lookups handed to dns.resolve, in order;                  *)
(* and, as history only, c.refused (lookups the budget guard refused),     *)
(* c.for/c.from (the mechanism on whose behalf a lookup is made and the    *)
(* policy that declares it), c.depth/c.maxDepth (nesting of include and    *)
(* redirect steps), c.ev (what match() answered, with the depth it was    *)
(* asked at and, for an include, the nested evaluation's outcome, for an   *)
(* mx, the exchanges it was resolved to) and                               *)
(* c.mechs (the list getMechanisms returned).                              *)
(*                                                                         *)
(* An invocation is stored as its arguments plus the sequence hist of      *)
(* counter values its callbacks left behind; its position in the code is   *)
(* recomputed from them (the program is deterministic between callbacks).  *)
(* External collaborators are modelled by what the program reads of them:  *)
(* dns.resolve by a table of replies that is filled the first time a name  *)
(* is asked and fixed afterwards, spf-parse by records that are already    *)
(* term lists, ipaddr.js by small integer addresses, tldjs by a set of     *)
(* valid names.  The sender address and parser warnings are left out: no   *)
(* operation reads them.                                                   *)
(***************************************************************************)
EXTENDS Integers, Sequences, FiniteSets, TLC

(***************************************************************************)
(* Bounds of the model.                                                    *)
(***************************************************************************)
\* Largest value of options.maxDNS that is tried (the program's default is 10).
MaxBudget == 3
\* Number of invocations (calls of the exported function or of a method).
MaxCalls == 2
\* Width of a model IPv4 address in bits (stands for 32), IPv6 is one wider.
V4Bits == 2

(***************************************************************************)
(* Results (src/index.js 11-71).                                           *)
(***************************************************************************)
messages ==
    [None      |-> "Cannot assert whether or not the client host is authorized",
     Neutral   |-> "Domain owner has explicitly stated that he cannot or does not want to assert whether or not the IP address is authorized",
     Pass      |-> "Client is authorized to inject mail with the given identity",
     Fail      |-> "Client is *not* authorized to use the domain in the given identity",
     SoftFail  |-> "Domain believes the host is not authorized but is not willing to make that strong of a statement",
     TempError |-> "Encountered a transient error while performing the check",
     PermError |-> "Domain's published records could not be correctly interpreted"]

results == DOMAIN messages

\* A plain JavaScript Error (TypeError, Error), as opposed to an SPFResult.
Error(message) ==
    [class |-> "Error", result |-> "", message |-> message,
     mechanism |-> "", matched |-> <<>>]

\* new SPFResult(result, message); message "" stands for an omitted message.
SPFResult(result, message) ==
    IF result \notin results
    THEN Error("Result not found")
    ELSE [class |-> "SPFResult", result |-> result,
          message |-> IF message = "" THEN messages[result] ELSE message,
          mechanism |-> "default", matched |-> <<>>]

isSPFResult(err) == err.class = "SPFResult"

(***************************************************************************)
(* Context plumbing: return, throw, and the test every caller makes after  *)
(* an awaited call.                                                        *)
(***************************************************************************)
Ret(c, v) == [c EXCEPT !.val = v]

\* `throw new SPFResult(...)`: the constructor itself may throw a TypeError.
Throw(c, err) == [c EXCEPT !.st = "throw", !.err = err]

Ok(c) == c.st = "ok"

\* An awaited call is settled once, before what follows it reads its
\* outcome: The({F(r) : r \in {call}}) is F of the call's outcome.
The(S) == CHOOSE v \in S : TRUE

NewContext(count) ==
    [st |-> "ok", val |-> <<>>, err |-> Error(""), cnt |-> count, k |-> 0,
     log |-> <<>>, refused |-> <<>>, for |-> "check", from |-> "",
     depth |-> 0, maxDepth |-> 0, ev |-> <<>>, mechs |-> <<>>]

(***************************************************************************)
(* Addresses (ipaddr.js).  An address text is [kind, a, form]: kind "bad"  *)
(* is text that does not parse, form tells the spelling ("canon" is the    *)
(* one toString() prints).  A parsed address is [kind, a].                 *)
(***************************************************************************)
V6Bits == V4Bits + 1

Bits(kind) == IF kind = "ipv4" THEN V4Bits ELSE V6Bits

\* 2^n
RECURSIVE Pow2(_)
Pow2(n) == IF n = 0 THEN 1 ELSE 2 * Pow2(n - 1)

\* ipaddr.isValid(ip)
isValidIP(ip) == ip.kind \in {"ipv4", "ipv6"} /\ ip.a \in 0 .. (Pow2(Bits(ip.kind)) - 1)

\* ipaddr.parse(ip)
parseIP(ip) == [kind |-> ip.kind, a |-> ip.a]

\* addr.toString()
toString(addr) == [kind |-> addr.kind, a |-> addr.a, form |-> "canon"]

\* A CIDR text is [kind, a, form, bits]; bits = -1 when the text has no "/".
hasSlash(value) == value.bits # -1

\* ipaddr.parseCIDR(value) succeeds
validCIDR(value) ==
    /\ isValidIP(value)
    /\ value.bits \in 0 .. Bits(value.kind)

\* ipaddr.parseCIDR(value): the pair (address, prefix length)
parseCIDR(value) == <<parseIP(value), value.bits>>

\* addr.match(address), both of one kind: equal on the first `bits` bits.
addrMatch(addr, address) ==
    LET shift == Pow2(Bits(addr.kind) - address[2])
    IN  (addr.a \div shift) = (address[1].a \div shift)

\* tldjs.isValid(domain)
InvalidDomain == "<bad>"
isValidDomain(domain) == domain # InvalidDomain

(***************************************************************************)
(* DNS gateway (src/index.js 133-182).  `this` is the SPF object as the    *)
(* running invocation reads it: this.options, and for the resolver         *)
(* this.dns (the replies, by <<name, record type>>) and this.hist (the     *)
(* value of this.queryDNSCount after each callback delivered so far).      *)
(***************************************************************************)
\* err.message of a failed dns.resolve: "<syscall> <code> <hostname>"
Syscall(rrtype) ==
    CASE rrtype = "TXT"  -> "queryTxt"
      [] rrtype = "A"    -> "queryA"
      [] rrtype = "AAAA" -> "queryAaaa"
      [] rrtype = "MX"   -> "queryMx"

ErrMessage(hostname, rrtype, code) == <<Syscall(rrtype), code, hostname>>

\* new RegExp('queryTxt (ENOTFOUND|ENODATA) ' + hostname).test(message)
NotFoundRegExp(hostname, message) ==
    /\ message[1] = "queryTxt"
    /\ message[2] \in {"ENOTFOUND", "ENODATA"}
    /\ message[3] = hostname

\* _.join(record, ''): the segments of one TXT record, concatenated
RECURSIVE join(_)
join(record) ==
    IF record = <<>> THEN <<>> ELSE Head(record) \o join(Tail(record))

\* _.isNil(lookupLimit) || lookupLimit === true
LimitOf(lookupLimit) == lookupLimit \in {"undefined", "true"}

resolveDNSLimitGT(this, hostname, rrtype, lookupLimit, c) ==
    LET limit == LimitOf(lookupLimit)
        q == [host |-> hostname, rrtype |-> rrtype, limit |-> limit,
              for |-> c.for, from |-> c.from, depth |-> c.depth]
        c1 == [c EXCEPT !.log = Append(@, q)]
        c2 == [c1 EXCEPT !.k = @ + 1, !.cnt = this.hist[c.k + 1]]
        reply == this.dns[<<hostname, rrtype>>]
    IN
    IF limit /\ c.cnt > this.options.maxDNS
    THEN Throw([c EXCEPT !.refused = Append(@, q)],
               SPFResult("PermError", "Limit of DNS lookups reached"))
    ELSE IF c.k >= Len(this.hist)
    THEN [c1 EXCEPT !.st = "wait"]
    ELSE IF reply.error
    THEN IF NotFoundRegExp(hostname, ErrMessage(hostname, rrtype, reply.code))
         THEN Throw(c2, SPFResult("None", "Domain does not exists"))
         ELSE Throw(c2, SPFResult("TempError", reply.code))
    ELSE IF rrtype = "TXT"
    THEN Ret(c2, [i \in 1 .. Len(reply.records) |-> join(reply.records[i])])
    ELSE Ret(c2, reply.records)

\* resolveDNS(hostname, rrtype, lookupLimit).  The lookup is handed to
\* dns.resolve when the guard lets it through; the promise stays pending
\* ("wait") until the callback has been delivered, and the callback is what
\* increments this.queryDNSCount (action Callback): c.cnt then reads the
\* counter as that callback left it.
resolveDNS(this, hostname, rrtype, lookupLimit, c) ==
    LET limit == LimitOf(lookupLimit)
        q == [host |-> hostname, rrtype |-> rrtype, limit |-> limit,
              for |-> c.for, from |-> c.from, depth |-> c.depth]
        c1 == [c EXCEPT !.log = Append(@, q)]
        c2 == [c1 EXCEPT !.k = @ + 1, !.cnt = this.hist[c.k + 1]]
        reply == this.dns[<<hostname, rrtype>>]
    IN
    IF limit /\ c.cnt >= this.options.maxDNS
    THEN Throw([c EXCEPT !.refused = Append(@, q)],
               SPFResult("PermError", "Limit of DNS lookups reached"))
    ELSE IF c.k >= Len(this.hist)
    THEN [c1 EXCEPT !.st = "wait"]
    ELSE IF reply.error
    THEN IF NotFoundRegExp(hostname, ErrMessage(hostname, rrtype, reply.code))
         THEN Throw(c2, SPFResult("None", "Domain does not exists"))
         ELSE Throw(c2, SPFResult("TempError", reply.code))
    ELSE IF rrtype = "TXT"
    THEN Ret(c2, [i \in 1 .. Len(reply.records) |-> join(reply.records[i])])
    ELSE Ret(c2, reply.records)

\* _.sortBy(exchanges, 'priority'): a stable sort, by insertion
RECURSIVE insertByPriority(_, _)
insertByPriority(x, sorted) ==
    IF sorted = <<>> THEN <<x>>
    ELSE IF Head(sorted).priority <= x.priority
    THEN <<Head(sorted)>> \o insertByPriority(x, Tail(sorted))
    ELSE <<x>> \o sorted

RECURSIVE sortByPriority(_)
sortByPriority(exchanges) ==
    IF exchanges = <<>> THEN <<>>
    ELSE LET n == Len(exchanges)
         IN  insertByPriority(exchanges[n], sortByPriority(SubSeq(exchanges, 1, n - 1)))

\* The loop of resolveMX (144-146), from exchange e on; resolveMXRecords is
\* the step after the await of one exchange's lookup r.
RECURSIVE resolveMXLoop(_, _, _, _, _)
RECURSIVE resolveMXRecords(_, _, _, _, _)

resolveMXRecords(this, exchanges, rrtype, e, r) ==
    IF ~Ok(r) THEN r
    ELSE resolveMXLoop(this,
            [exchanges EXCEPT ![e] = [priority |-> @.priority,
                                      exchange |-> @.exchange,
                                      records  |-> r.val]],
            rrtype, e + 1, r)

resolveMXLoop(this, exchanges, rrtype, e, c) ==
    IF e > Len(exchanges) THEN Ret(c, exchanges)
    ELSE The({resolveMXRecords(this, exchanges, rrtype, e, r) :
                 r \in {resolveDNS(this, exchanges[e].exchange, rrtype, "false", c)}})

\* 148: return _.sortBy(exchanges, 'priority'), l being the loop's outcome
resolveMXSorted(l) == IF ~Ok(l) THEN l ELSE Ret(l, sortByPriority(l.val))

\* resolveMX after the MX lookup, refusing only more exchanges than maxDNS
resolveMXExchangesGT(this, rrtype, r) ==
    IF ~Ok(r) THEN r
    ELSE IF Len(r.val) > this.options.maxDNS
    THEN Throw(r, SPFResult("PermError",
               "Limit of DNS lookups reached when processing MX mechanism"))
    ELSE The({resolveMXSorted(l) : l \in {resolveMXLoop(this, r.val, rrtype, 1, r)}})

\* 137-148: resolveMX after the await of the MX lookup r
resolveMXExchanges(this, rrtype, r) ==
    IF ~Ok(r) THEN r
    ELSE IF Len(r.val) >= this.options.maxDNS
    THEN Throw(r, SPFResult("PermError",
               "Limit of DNS lookups reached when processing MX mechanism"))
    ELSE The({resolveMXSorted(l) : l \in {resolveMXLoop(this, r.val, rrtype, 1, r)}})

\* resolveMX(hostname, rrtype)
resolveMX(this, hostname, rrtype, c) ==
    The({resolveMXExchanges(this, rrtype, r) :
            r \in {resolveDNS(this, hostname, "MX", "undefined", c)}})

(***************************************************************************)
(* Policy records.  A TXT record, once its segments are joined, is a list  *)
(* of space-separated terms; a term is what spf-parse makes of it,         *)
(* [type, value, prefixdesc].  Term types "non-ascii" and "syntax-error"   *)
(* stand for text the program rejects, "text" for a record that is no SPF  *)
(* record.                                                                 *)
(***************************************************************************)
VersionTag(version) == IF version = 1 THEN "spf1" ELSE "spf?"

\* _.startsWith(record, 'v=spf' + version + ' '): the version term and a
\* space after it, that is, at least one more term.
startsWithVersion(record, version) ==
    /\ Len(record) >= 2
    /\ record[1].type = "version"
    /\ record[1].value.name = VersionTag(version)

\* /[^\x00-\x7f]/.test(record)
nonASCII(record) == \E i \in 1 .. Len(record) : record[i].type = "non-ascii"

\* spfParse(record): what resolveSPF reads of the parser's answer.
spfParse(record) ==
    LET bad == \E i \in 1 .. Len(record) : record[i].type = "syntax-error"
    IN  [valid      |-> ~bad,
         messages   |-> IF bad THEN <<[type |-> "error", message |-> "Unknown term"]>>
                        ELSE <<>>,
         mechanisms |-> record]

\* _.assign(mechanism, source)
assign(mechanism, source) == source @@ mechanism

has(mechanism, field) == field \in DOMAIN mechanism

\* Entering an include or redirect step with a counter of the step's own
EnterOwnCounter(c, for, from) ==
    [c EXCEPT !.for = for, !.from = from, !.depth = @ + 1, !.cnt = 0,
              !.maxDepth = IF c.depth + 1 > @ THEN c.depth + 1 ELSE @]

\* Entering and leaving one include or redirect step.
Enter(c, for, from) ==
    [c EXCEPT !.for = for, !.from = from, !.depth = @ + 1,
              !.maxDepth = IF c.depth + 1 > @ THEN c.depth + 1 ELSE @]

Leave(r, c) == [r EXCEPT !.depth = c.depth]

On(c, for, from) == [c EXCEPT !.for = for, !.from = from]

(***************************************************************************)
(* Policy fetcher and mechanism resolver (src/index.js 184-290).           *)
(***************************************************************************)
RECURSIVE resolveSPF(_, _, _, _)
RECURSIVE resolveSPFRecords(_, _, _, _)
RECURSIVE resolveSPFLoop(_, _, _, _, _, _, _, _)
RECURSIVE resolveSPFRedirect(_, _, _, _, _, _, _, _, _)
RECURSIVE resolveSPFMechanism(_, _, _, _, _, _, _, _)
RECURSIVE resolveSPFPush(_, _, _, _, _, _, _, _, _)
RECURSIVE resolve(_, _, _)

\* The object a closure returns: { records: ... }, { exchanges: ... } or
\* { includes: ... }, r being the outcome of the awaited call.
keyed(r, key) == IF ~Ok(r) THEN r ELSE Ret(r, key :> r.val)

\* Back in the policy that holds the include or redirect, once r is there.
left(r, c) == IF ~Ok(r) THEN r ELSE Leave(r, c)

\* mechanism.resolve() with an a or mx mechanism that has no value
\* resolved against the domain of the check
resolveAgainstDomain(this, mechanism, c) ==
    CASE mechanism.type = "a" ->
           The({keyed(r, "records") :
                   r \in {resolveDNS(this,
                             IF mechanism.value.name # "" THEN mechanism.value.name
                                                     ELSE this.domain,
                             mechanism.rrtype, "undefined",
                             On(c, "a", mechanism.hostname))}})
      [] mechanism.type = "mx" ->
           The({keyed(r, "exchanges") :
                   r \in {resolveMX(this,
                             IF mechanism.value.name # "" THEN mechanism.value.name
                                                     ELSE this.domain,
                             mechanism.rrtype,
                             On(c, "mx", mechanism.hostname))}})
      [] mechanism.type = "include" ->
           The({keyed(left(r, c), "includes") :
                   r \in {resolveSPF(this, mechanism.value.name, mechanism.rrtype,
                                     Enter(c, "include", mechanism.hostname))}})

\* mechanism.resolve(): the closure attached at 245, 251 or 271; it has
\* captured hostname and rrtype of the resolveSPF call that attached it.
resolve(this, mechanism, c) ==
    CASE mechanism.type = "a" ->
           The({keyed(r, "records") :
                   r \in {resolveDNS(this,
                             IF mechanism.value.name # "" THEN mechanism.value.name
                                                     ELSE mechanism.hostname,
                             mechanism.rrtype, "undefined",
                             On(c, "a", mechanism.hostname))}})
      [] mechanism.type = "mx" ->
           The({keyed(r, "exchanges") :
                   r \in {resolveMX(this,
                             IF mechanism.value.name # "" THEN mechanism.value.name
                                                     ELSE mechanism.hostname,
                             mechanism.rrtype,
                             On(c, "mx", mechanism.hostname))}})
      [] mechanism.type = "include" ->
           The({keyed(left(r, c), "includes") :
                   r \in {resolveSPF(this, mechanism.value.name, mechanism.rrtype,
                                     Enter(c, "include", mechanism.hostname))}})

\* 276-287: after the await of mechanism.resolve() (fetched): the push, the
\* break on "all", the next turn of the loop.
resolveSPFPush(this, hostname, rrtype, mechanisms, catchAll, i, resolved, mechanism, fetched) ==
    LET pushed == Append(resolved, assign(mechanism, fetched.val))
    IN  IF ~Ok(fetched) THEN fetched
        ELSE IF mechanism.type = "all" THEN Ret(fetched, pushed)
        ELSE resolveSPFLoop(this, hostname, rrtype, mechanisms, catchAll,
                            i + 1, pushed, fetched)

\* One mechanism that is no redirect, resolved at once whatever the value
\* of options.prefetch
resolveSPFMechanismEager(this, hostname, rrtype, mechanisms, catchAll, i, resolved, c) ==
    LET parsed == mechanisms[i]
        closure == [resolve |-> TRUE, hostname |-> hostname, rrtype |-> rrtype]
        value == IF hasSlash(parsed.value) THEN parsed.value
                 ELSE [parsed.value EXCEPT
                         !.bits = IF parsed.type = "ip4" THEN V4Bits ELSE V6Bits]
        mechanism ==
            CASE parsed.type \in {"a", "mx", "include"} -> assign(parsed, closure)
              [] parsed.type \in {"ip4", "ip6"} ->
                   assign(parsed, [value |-> value, address |-> parseCIDR(value)])
              [] OTHER -> parsed
    IN
    IF parsed.type \in {"ip4", "ip6"} /\ ~validCIDR(value)
    THEN Throw(c, SPFResult("PermError", "Malformed address"))
    ELSE The({resolveSPFPush(this, hostname, rrtype, mechanisms, catchAll, i,
                             resolved, mechanism, fetched) :
                 fetched \in {IF has(mechanism, "resolve")
                              THEN resolve(this, mechanism, c)
                              ELSE Ret(c, <<>>)}})

\* 244-280: one mechanism that is no redirect: attach the closure or parse
\* the network, then resolve it when prefetch is on.
resolveSPFMechanism(this, hostname, rrtype, mechanisms, catchAll, i, resolved, c) ==
    LET parsed == mechanisms[i]
        closure == [resolve |-> TRUE, hostname |-> hostname, rrtype |-> rrtype]
        value == IF hasSlash(parsed.value) THEN parsed.value
                 ELSE [parsed.value EXCEPT
                         !.bits = IF parsed.type = "ip4" THEN V4Bits ELSE V6Bits]
        mechanism ==
            CASE parsed.type \in {"a", "mx", "include"} -> assign(parsed, closure)
              [] parsed.type \in {"ip4", "ip6"} ->
                   assign(parsed, [value |-> value, address |-> parseCIDR(value)])
              [] OTHER -> parsed
    IN
    IF parsed.type \in {"ip4", "ip6"} /\ ~validCIDR(value)
    THEN Throw(c, SPFResult("PermError", "Malformed address"))
    ELSE The({resolveSPFPush(this, hostname, rrtype, mechanisms, catchAll, i,
                             resolved, mechanism, fetched) :
                 fetched \in {IF this.options.prefetch /\ has(mechanism, "resolve")
                              THEN resolve(this, mechanism, c)
                              ELSE Ret(c, <<>>)}})

\* The step after the await of a redirect's resolveSPF, leaving the
\* redirect itself in the list before what it was resolved to
resolveSPFRedirectKept(this, hostname, rrtype, mechanisms, catchAll, i, resolved, c, r) ==
    IF ~Ok(r) THEN r
    ELSE resolveSPFLoop(this, hostname, rrtype, mechanisms, catchAll,
                        i + 1, Append(resolved, mechanisms[i]) \o r.val,
                        Leave(r, c))

\* 237: resolved = _.concat(resolved, await this.resolveSPF(...)), r being
\* the outcome of the awaited call.
resolveSPFRedirect(this, hostname, rrtype, mechanisms, catchAll, i, resolved, c, r) ==
    IF ~Ok(r) THEN r
    ELSE resolveSPFLoop(this, hostname, rrtype, mechanisms, catchAll,
                        i + 1, resolved \o r.val, Leave(r, c))

\* The loop of resolveSPF following a redirect whether or not the policy
\* has an "all"
resolveSPFLoopFollowing(this, hostname, rrtype, mechanisms, catchAll, i, resolved, c) ==
    IF i > Len(mechanisms) THEN Ret(c, resolved)
    ELSE IF mechanisms[i].type = "redirect"
    THEN The({resolveSPFRedirect(this, hostname, rrtype, mechanisms,
                                 catchAll, i, resolved, c, r) :
                 r \in {resolveSPF(this, mechanisms[i].value.name, rrtype,
                                   Enter(c, "redirect", hostname))}})
    ELSE resolveSPFMechanism(this, hostname, rrtype, mechanisms, catchAll,
                             i, resolved, c)

\* The loop of resolveSPF (230-287), from mechanism i on.
resolveSPFLoop(this, hostname, rrtype, mechanisms, catchAll, i, resolved, c) ==
    IF i > Len(mechanisms) THEN Ret(c, resolved)
    ELSE IF mechanisms[i].type = "redirect"
    THEN IF ~catchAll
         THEN The({resolveSPFRedirect(this, hostname, rrtype, mechanisms,
                                      catchAll, i, resolved, c, r) :
                      r \in {resolveSPF(this, mechanisms[i].value.name, rrtype,
                                        Enter(c, "redirect", hostname))}})
         ELSE resolveSPFLoop(this, hostname, rrtype, mechanisms, catchAll,
                             i + 1, resolved, c)
    ELSE resolveSPFMechanism(this, hostname, rrtype, mechanisms, catchAll,
                             i, resolved, c)

\* resolveSPF after the TXT lookup, taking the last record that begins with
\* the version tag when there are several
resolveSPFRecordsLast(this, hostname, rrtype, r) ==
    LET records == SelectSeq(r.val,
                      LAMBDA record : startsWithVersion(record, this.options.version))
        record == records[Len(records)]
        parsed == spfParse(record)
        errors == SelectSeq(parsed.messages, LAMBDA m : m.type = "error")
        catchAll == \E i \in 1 .. Len(parsed.mechanisms) :
                       parsed.mechanisms[i].type = "all"
    IN
    IF ~Ok(r) THEN r
    ELSE IF Len(records) = 0
    THEN Throw(r, SPFResult("None", "Assume that the domain makes no SPF declarations"))
    ELSE IF nonASCII(record)
    THEN Throw(r, SPFResult("PermError", "Character content of the record should be encoded as US-ASCII"))
    ELSE IF parsed.valid = FALSE
    THEN Throw(r, SPFResult("PermError", "There shouldn't be any syntax errors"))
    ELSE IF Len(errors) > 0
    THEN Throw(r, SPFResult("PermError", errors[1].message))
    ELSE resolveSPFLoop(this, hostname, rrtype, parsed.mechanisms, catchAll, 1, <<>>, r)

\* 186-228: resolveSPF after the await of the TXT lookup r
resolveSPFRecords(this, hostname, rrtype, r) ==
    LET records == SelectSeq(r.val,
                      LAMBDA record : startsWithVersion(record, this.options.version))
        record == records[Len(records)]
        parsed == spfParse(record)
        errors == SelectSeq(parsed.messages, LAMBDA m : m.type = "error")
        catchAll == \E i \in 1 .. Len(parsed.mechanisms) :
                       parsed.mechanisms[i].type = "all"
    IN
    IF ~Ok(r) THEN r
    ELSE IF Len(records) = 0
    THEN Throw(r, SPFResult("None", "Assume that the domain makes no SPF declarations"))
    ELSE IF Len(records) > 1
    THEN Throw(r, SPFResult("PermError", "There should be exactly one record remaining"))
    ELSE IF nonASCII(record)
    THEN Throw(r, SPFResult("PermError", "Character content of the record should be encoded as US-ASCII"))
    ELSE IF parsed.valid = FALSE
    THEN Throw(r, SPFResult("PermError", "There shouldn't be any syntax errors"))
    ELSE IF Len(errors) > 0
    THEN Throw(r, SPFResult("PermError", errors[1].message))
    ELSE resolveSPFLoop(this, hostname, rrtype, parsed.mechanisms, catchAll, 1, <<>>, r)

\* resolveSPF(hostname, rrtype)
resolveSPF(this, hostname, rrtype, c) ==
    The({resolveSPFRecords(this, hostname, rrtype, r) :
            r \in {resolveDNS(this, hostname, "TXT", "undefined", c)}})

\* 296-313: getMechanisms after the await of resolveSPF (r)
gotMechanisms(r) ==
    IF r.st = "wait" THEN r
    ELSE IF r.st = "throw"
    THEN IF isSPFResult(r.err) THEN r
         ELSE Throw(r, SPFResult("TempError", r.err.message))
    ELSE IF Len(r.val) = 0
    THEN Throw(r, SPFResult("TempError", "No mechanisms found"))
    ELSE [r EXCEPT !.mechs = r.val]

\* getMechanisms(rrtype)
getMechanisms(this, rrtype, c) ==
    The({gotMechanisms(r) :
            r \in {resolveSPF(this, this.domain, rrtype,
                              On(c, "check", this.domain))}})

(***************************************************************************)
(* Matcher and evaluator (src/index.js 339-370, 463-509).                  *)
(***************************************************************************)
\* _.includes(records, text)
includes(records, text) == \E i \in 1 .. Len(records) : records[i] = text

\* match(mechanism, addr) with an include that matches unless the nested
\* outcome is Fail
matchUnlessFail(this, mechanism, addr, c) ==
    CASE mechanism.type = "version" ->
           IF mechanism.value.name # VersionTag(this.options.version)
           THEN Throw(c, SPFResult("PermError", "Version not supported"))
           ELSE Ret(c, FALSE)
      [] mechanism.type = "a" ->
           Ret(c, includes(mechanism.records, toString(addr)))
      [] mechanism.type = "mx" ->
           Ret(c, \E i \in 1 .. Len(mechanism.exchanges) :
                     includes(mechanism.exchanges[i].records, toString(addr)))
      [] mechanism.type \in {"ip4", "ip6"} ->
           IF addr.kind # mechanism.address[1].kind
           THEN Ret(c, FALSE)
           ELSE Ret(c, addrMatch(addr, mechanism.address))
      [] mechanism.type = "include" ->
           IF mechanism.evaluated.result = "None"
           THEN Throw(c, SPFResult("PermError", "Validation for include missed"))
           ELSE Ret(c, mechanism.evaluated.result # "Fail")
      [] mechanism.type = "all" -> Ret(c, TRUE)
      [] OTHER -> Throw(c, SPFResult("PermError", "Mechanism not supported"))

\* match(mechanism, addr) comparing an ip4 or ip6 network with the
\* client's address whatever the kinds of the two
matchAnyFamily(this, mechanism, addr, c) ==
    CASE mechanism.type = "version" ->
           IF mechanism.value.name # VersionTag(this.options.version)
           THEN Throw(c, SPFResult("PermError", "Version not supported"))
           ELSE Ret(c, FALSE)
      [] mechanism.type = "a" ->
           Ret(c, includes(mechanism.records, toString(addr)))
      [] mechanism.type = "mx" ->
           Ret(c, \E i \in 1 .. Len(mechanism.exchanges) :
                     includes(mechanism.exchanges[i].records, toString(addr)))
      [] mechanism.type \in {"ip4", "ip6"} ->
           Ret(c, addr.a = mechanism.address[1].a)
      [] mechanism.type = "include" ->
           IF mechanism.evaluated.result = "None"
           THEN Throw(c, SPFResult("PermError", "Validation for include missed"))
           ELSE Ret(c, mechanism.evaluated.result = "Pass")
      [] mechanism.type = "all" -> Ret(c, TRUE)
      [] OTHER -> Throw(c, SPFResult("PermError", "Mechanism not supported"))

\* match(mechanism, addr): c.val is the boolean returned.
match(this, mechanism, addr, c) ==
    CASE mechanism.type = "version" ->
           IF mechanism.value.name # VersionTag(this.options.version)
           THEN Throw(c, SPFResult("PermError", "Version not supported"))
           ELSE Ret(c, FALSE)
      [] mechanism.type = "a" ->
           Ret(c, includes(mechanism.records, toString(addr)))
      [] mechanism.type = "mx" ->
           Ret(c, \E i \in 1 .. Len(mechanism.exchanges) :
                     includes(mechanism.exchanges[i].records, toString(addr)))
      [] mechanism.type \in {"ip4", "ip6"} ->
           IF addr.kind # mechanism.address[1].kind
           THEN Ret(c, FALSE)
           ELSE Ret(c, addrMatch(addr, mechanism.address))
      [] mechanism.type = "include" ->
           IF mechanism.evaluated.result = "None"
           THEN Throw(c, SPFResult("PermError", "Validation for include missed"))
           ELSE Ret(c, mechanism.evaluated.result = "Pass")
      [] mechanism.type = "all" -> Ret(c, TRUE)
      [] OTHER -> Throw(c, SPFResult("PermError", "Mechanism not supported"))

\* _.merge(object, source) on two arrays of strings: index by index, the
\* source's element wins.
merge(object, source) ==
    [i \in 1 .. (IF Len(object) > Len(source) THEN Len(object) ELSE Len(source)) |->
        IF i <= Len(source) THEN source[i] ELSE object[i]]

\* 354-363: the Result of a matched mechanism; a TypeError when prefixdesc
\* names no result.
matchedResult(mechanism) ==
    LET result == SPFResult(mechanism.prefixdesc, "")
        matched == IF mechanism.type = "include"
                   THEN merge(<<mechanism.type>>, mechanism.evaluated.matched)
                   ELSE <<mechanism.type>>
    IN  IF ~isSPFResult(result) THEN result
        ELSE [result EXCEPT !.mechanism = mechanism.type, !.matched = matched]

RECURSIVE evaluate(_, _, _, _)
RECURSIVE evaluateLoop(_, _, _, _, _)
RECURSIVE evaluateFetched(_, _, _, _, _, _)
RECURSIVE evaluateNested(_, _, _, _, _, _, _)
RECURSIVE evaluateMatch(_, _, _, _, _, _, _)

\* 352-364: after match(mechanism, addr) has answered (m)
evaluateMatch(this, mechanisms, addr, i, c, mechanism, m) ==
    LET noted == [m EXCEPT !.ev = Append(@, [depth |-> c.depth, i |-> i,
                                             type |-> mechanism.type,
                                             prefixdesc |-> mechanism.prefixdesc,
                                             nested |-> IF mechanism.type = "include"
                                                        THEN mechanism.evaluated.result
                                                        ELSE "",
                                             exchanges |-> IF has(mechanism, "exchanges")
                                                           THEN mechanism.exchanges
                                                           ELSE <<>>,
                                             hit |-> m.val])]
        result == matchedResult(mechanism)
    IN
    IF ~Ok(m) THEN m
    ELSE IF m.val
    THEN IF isSPFResult(result) THEN Ret(noted, result) ELSE Throw(noted, result)
    ELSE evaluateLoop(this, mechanisms, addr, i + 1, noted)

\* 348-352: after the await of the nested evaluate (nested) of an include;
\* nested is the resolved mechanism's own context when it is no include.
evaluateNested(this, mechanisms, addr, i, c, resolved, nested) ==
    LET mechanism == IF resolved.type = "include"
                     THEN assign(resolved, [evaluated |-> nested.val])
                     ELSE resolved
    IN  IF ~Ok(nested) THEN nested
        ELSE The({evaluateMatch(this, mechanisms, addr, i, c, mechanism, m) :
                     m \in {match(this, mechanism, addr, Leave(nested, c))}})

\* 344-350: after the await of mechanism.resolve() (fetched)
evaluateFetched(this, mechanisms, addr, i, c, fetched) ==
    LET resolved == assign(mechanisms[i], fetched.val)
    IN  IF ~Ok(fetched) THEN fetched
        ELSE The({evaluateNested(this, mechanisms, addr, i, c, resolved, nested) :
                     nested \in {IF resolved.type = "include"
                                 THEN evaluate(this, resolved.includes, addr,
                                         Enter(fetched, "include", resolved.hostname))
                                 ELSE fetched}})

\* The loop of evaluate passing over a mechanism whose resolution was
\* deferred, instead of resolving it
evaluateLoopSkipping(this, mechanisms, addr, i, c) ==
    IF i > Len(mechanisms) THEN Ret(c, SPFResult("Neutral", ""))
    ELSE IF ~this.options.prefetch /\ has(mechanisms[i], "resolve")
    THEN evaluateLoop(this, mechanisms, addr, i + 1, c)
    ELSE The({evaluateFetched(this, mechanisms, addr, i, c, fetched) :
                 fetched \in {Ret(c, <<>>)}})

\* The loop of evaluate (342-365), from mechanism i on.
evaluateLoop(this, mechanisms, addr, i, c) ==
    IF i > Len(mechanisms) THEN Ret(c, SPFResult("Neutral", ""))
    ELSE The({evaluateFetched(this, mechanisms, addr, i, c, fetched) :
                 fetched \in {IF ~this.options.prefetch
                                 /\ has(mechanisms[i], "resolve")
                              THEN resolve(this, mechanisms[i], c)
                              ELSE Ret(c, <<>>)}})

\* evaluate(mechanisms, addr) going through the list from its end
Reverse(seq) == [j \in 1 .. Len(seq) |-> seq[Len(seq) + 1 - j]]

evaluateReversed(this, mechanisms, addr, c) ==
    evaluateLoop(this, Reverse(mechanisms), addr, 1, c)

\* evaluate(mechanisms, addr)
evaluate(this, mechanisms, addr, c) == evaluateLoop(this, mechanisms, addr, 1, c)

\* A catch that returns a thrown Result and lets any other error through
caughtResults(r) ==
    IF r.st # "throw" THEN r
    ELSE IF isSPFResult(r.err) THEN [r EXCEPT !.st = "ok", !.val = r.err]
    ELSE r

\* A catch that wraps whatever was thrown as PermError
caughtWrapped(r) ==
    IF r.st # "throw" THEN r
    ELSE [r EXCEPT !.st = "ok", !.val = SPFResult("PermError", r.err.message)]

\* 330-336, 386-392: the catch of check and of checkInclude
caught(r) ==
    IF r.st # "throw" THEN r
    ELSE IF isSPFResult(r.err) THEN [r EXCEPT !.st = "ok", !.val = r.err]
    ELSE [r EXCEPT !.st = "ok", !.val = SPFResult("PermError", r.err.message)]

\* 328-329: check after the await of getMechanisms (got)
checkMechanisms(this, addr, got) ==
    IF ~Ok(got) THEN got ELSE evaluate(this, got.val, addr, got)

\* check(ip) without the two validity tests of 317-323
checkUnvalidated(this, ip, c) ==
    The({caught(r) :
            r \in {checkMechanisms(this, parseIP(ip), got) :
                     got \in {getMechanisms(this,
                                 IF parseIP(ip).kind = "ipv4" THEN "A" ELSE "AAAA",
                                 c)}}})

\* check(ip)
check(this, ip, c) ==
    IF ~isValidIP(ip)
    THEN Ret(c, SPFResult("None", "Malformed IP for comparison"))
    ELSE IF ~isValidDomain(this.domain)
    THEN Ret(c, SPFResult("None", "No SPF record can be found on malformed domain"))
    ELSE The({caught(r) :
                 r \in {checkMechanisms(this, parseIP(ip), got) :
                          got \in {getMechanisms(this,
                                      IF parseIP(ip).kind = "ipv4" THEN "A"
                                                                   ELSE "AAAA",
                                      c)}}})

(***************************************************************************)
(* Include searcher (src/index.js 378-460).  evaluateInclude pushes onto   *)
(* the array it is handed, and its caller goes on with that same array:    *)
(* c.val is [result, list], list being the array argument after the push.  *)
(***************************************************************************)
Undefined == "undefined"

\* String.prototype.toLowerCase, on the names of the model
toLowerCase(name) ==
    CASE name = "D1" -> "d1"
      [] name = "D2" -> "d2"
      [] OTHER -> name

RECURSIVE evaluateInclude(_, _, _, _, _)
RECURSIVE evaluateIncludeLoop(_, _, _, _, _, _)
RECURSIVE evaluateIncludeTried(_, _, _, _, _, _, _)
RECURSIVE evaluateIncludeFetched(_, _, _, _, _, _, _)
RECURSIVE evaluateIncludeNested(_, _, _, _, _, _, _, _)
RECURSIVE evaluateIncludeMatch(_, _, _, _, _, _, _, _)

\* 446-454: after match(includeMechanisms[i]) has answered (m)
evaluateIncludeMatch(this, domain, i, array, c, nested, mechanism, m) ==
    LET result == matchedResult(mechanism)
    IN  IF ~Ok(m) THEN m
        ELSE IF m.val
        THEN IF isSPFResult(result)
             THEN Ret(m, [result |-> result, list |-> array])
             ELSE Throw(m, result)
        ELSE evaluateIncludeLoop(this, domain, nested.val.list, i + 1, array, m)

\* 436-446: after the await of the nested evaluateInclude (nested)
evaluateIncludeNested(this, domain, list, i, array, c, resolved, nested) ==
    LET mechanism == assign(resolved, [evaluated |-> nested.val.result])
    IN  IF ~Ok(nested) THEN nested
        ELSE IF nested.val.result.result = "None"
        THEN Throw(Leave(nested, c),
                   SPFResult("PermError", "Validation for include missed"))
        ELSE The({evaluateIncludeMatch(this, domain, i, array, c, nested,
                                       mechanism, m) :
                     m \in {match(this, mechanism, Undefined, Leave(nested, c))}})

\* 433-436: the nested call on what includeMechanisms[i] resolved to
evaluateIncludeFetched(this, domain, list, i, array, c, fetched) ==
    LET resolved == assign(list[i], fetched.val)
        rest == SubSeq(list, i + 1, Len(list))
    IN  The({evaluateIncludeNested(this, domain, list, i, array, c, resolved,
                                   nested) :
                nested \in {IF has(resolved, "includes")
                            THEN evaluateInclude(this, resolved.includes, domain,
                                    rest,
                                    Enter(fetched, "include", resolved.hostname))
                            ELSE Throw(fetched, Error("mechanisms is undefined"))}})

\* After the await of includeMechanisms[i].resolve(), rethrowing every
\* Result, None as well
evaluateIncludeTriedStrict(this, domain, list, i, array, c, tried) ==
    IF tried.st = "wait" THEN tried
    ELSE IF tried.st = "throw" /\ isSPFResult(tried.err)
    THEN tried
    ELSE The({evaluateIncludeFetched(this, domain, list, i, array, c, fetched) :
                 fetched \in {IF tried.st = "throw"
                              THEN Ret(Leave([tried EXCEPT !.st = "ok"], c), <<>>)
                              ELSE tried}})

\* 421-431: after the await of includeMechanisms[i].resolve() (tried): a
\* Result of None skips the mechanism, another Result is rethrown, a plain
\* Error is swallowed.
evaluateIncludeTried(this, domain, list, i, array, c, tried) ==
    IF tried.st = "wait" THEN tried
    ELSE IF tried.st = "throw" /\ isSPFResult(tried.err)
    THEN IF tried.err.result = "None"
         THEN evaluateIncludeLoop(this, domain, list, i + 1, array,
                                  Leave([tried EXCEPT !.st = "ok"], c))
         ELSE tried
    ELSE The({evaluateIncludeFetched(this, domain, list, i, array, c, fetched) :
                 fetched \in {IF tried.st = "throw"
                              THEN Ret(Leave([tried EXCEPT !.st = "ok"], c), <<>>)
                              ELSE tried}})

\* The loop over includeMechanisms ending, when the list is exhausted, with
\* Neutral as the loop of evaluate does
evaluateIncludeLoopNeutral(this, domain, list, i, array, c) ==
    IF i > Len(list)
    THEN Ret(c, [result |-> SPFResult("Neutral", ""), list |-> array])
    ELSE The({evaluateIncludeTried(this, domain, list, i, array, c, tried) :
                 tried \in {IF ~this.options.prefetch /\ has(list[i], "resolve")
                            THEN resolve(this, list[i], c)
                            ELSE Ret(c, <<>>)}})

\* The loop at 418-455 over includeMechanisms (here list), from index i on;
\* array is the array object evaluateInclude was called with.
evaluateIncludeLoop(this, domain, list, i, array, c) ==
    IF i > Len(list)
    THEN Ret(c, [result |-> SPFResult("Fail", ""), list |-> array])
    ELSE The({evaluateIncludeTried(this, domain, list, i, array, c, tried) :
                 tried \in {IF ~this.options.prefetch /\ has(list[i], "resolve")
                            THEN resolve(this, list[i], c)
                            ELSE Ret(c, <<>>)}})

\* evaluateInclude without the first loop (411-416): every include of the
\* working set is resolved, the one that names the domain included
evaluateIncludeNoDirect(this, mechanisms, domain, includeMechanisms, c) ==
    LET pushed == includeMechanisms
                  \o SelectSeq(mechanisms, LAMBDA m : m.type = "include")
    IN
    IF Len(pushed) = 0
    THEN Ret(c, [result |-> SPFResult("Fail", ""), list |-> pushed])
    ELSE IF domain = Undefined
    THEN Throw(c, Error("Cannot read properties of undefined"))
    ELSE evaluateIncludeLoop(this, domain, pushed, 1, pushed, c)

\* evaluateInclude(mechanisms, domain, includeMechanisms)
evaluateInclude(this, mechanisms, domain, includeMechanisms, c) ==
    LET pushed == includeMechanisms
                  \o SelectSeq(mechanisms, LAMBDA m : m.type = "include")
    IN
    IF Len(pushed) = 0
    THEN Ret(c, [result |-> SPFResult("Fail", ""), list |-> pushed])
    ELSE IF domain = Undefined
    THEN Throw(c, Error("Cannot read properties of undefined"))
    ELSE IF \E i \in 1 .. Len(pushed) :
               /\ pushed[i].value.name # ""
               /\ toLowerCase(pushed[i].value.name) = toLowerCase(domain)
    THEN Ret(c, [result |-> SPFResult("Pass", ""), list |-> pushed])
    ELSE evaluateIncludeLoop(this, domain, pushed, 1, pushed, c)

\* 384-385: checkInclude after the await of getMechanisms (got)
checkIncludeMechanisms(this, requiredDomain, got) ==
    IF ~Ok(got) THEN got
    ELSE evaluateInclude(this, got.val, requiredDomain, <<>>, got)

\* 385: the Result of what evaluateInclude returned
found(r) == IF ~Ok(r) THEN r ELSE Ret(r, r.val.result)

\* checkInclude(requiredDomain)
checkInclude(this, requiredDomain, c) ==
    IF ~isValidDomain(this.domain)
    THEN Ret(c, SPFResult("None", "No SPF record can be found on malformed domain"))
    ELSE The({caught(found(r)) :
                 r \in {checkIncludeMechanisms(this, requiredDomain, got) :
                          got \in {getMechanisms(this, "A", c)}}})

(***************************************************************************)
(* The inputs: client addresses, names, and what the resolver may reply    *)
(* (lists, not sets: replies are of several shapes).                       *)
(***************************************************************************)
ClientIP4 == [kind |-> "ipv4", a |-> 1, form |-> "canon"]
ClientIP6 == [kind |-> "ipv6", a |-> 1, form |-> "upper"]
MalformedIP == [kind |-> "bad", a |-> 0, form |-> "canon"]
IPs == {ClientIP4, ClientIP6, MalformedIP}

Addr(kind, a) == [kind |-> kind, a |-> a, form |-> "canon"]

Term(type, value, prefixdesc) ==
    [type |-> type, value |-> value, prefixdesc |-> prefixdesc]

\* The text of a term's value: a name (possibly empty), or a network with
\* its prefix length (bits -1: none written).
Name(name) ==
    [name |-> name, kind |-> "name", a |-> 0, form |-> "canon", bits |-> -1]
CIDR(kind, a, bits) ==
    [name |-> "", kind |-> kind, a |-> a, form |-> "canon", bits |-> bits]
V == Term("version", Name("spf1"), "")
Ip4Client == Term("ip4", CIDR("ipv4", 1, -1), "Pass")
Ip4Other  == Term("ip4", CIDR("ipv4", 2, -1), "Pass")
Ip6Client == Term("ip6", CIDR("ipv6", 1, -1), "Pass")
All(prefixdesc) == Term("all", Name(""), prefixdesc)
A(value) == Term("a", Name(value), "Pass")
Mx == Term("mx", Name(""), "Pass")
Include(value, prefixdesc) == Term("include", Name(value), prefixdesc)
Redirect(value) == Term("redirect", Name(value), "Neutral")
Ptr == Term("ptr", Name(""), "Pass")

\* A reply of dns.resolve: an error code, or records.
Failed(code) == [error |-> TRUE, code |-> code]
Records(records) == [error |-> FALSE, records |-> records]
\* One TXT record in one segment, the version term first.
Policy(terms) == Records(<< << <<V>> \o terms >> >>)

PoliciesD0 ==
    << Policy(<<Ip4Client>>),
      Policy(<<Ip6Client, Ip4Other, All("Fail")>>),
      Policy(<<A("")>>),
      Policy(<<Mx, All("SoftFail")>>),
      Policy(<<Include("d1", "Pass"), All("Fail")>>),
      Policy(<<Include("d1", "Fail"), Include("d2", "Pass")>>),
      Policy(<<Redirect("d1")>>),
      Policy(<<Redirect("d1"), All("Fail")>>),
      Policy(<<All("Fail"), Redirect("d1")>>),
      Policy(<<Redirect("d1"), A("h")>>),
      Policy(<<All("Pass"), A("h"), Include("d1", "Pass")>>),
      Policy(<<Ip4Client, Redirect("d1")>>),
      Policy(<<Ip4Client, A("h"), Include("d0", "Pass")>>),
      Policy(<<Include("d0", "Pass")>>),
      Policy(<<Redirect("d0")>>),
      Policy(<<A(""), Redirect("d1")>>),
      Policy(<<Ptr>>) >>

PoliciesD1 ==
    << Policy(<<All("Fail")>>),
      Policy(<<Ip4Client>>),
      Policy(<<Ip4Other, All("SoftFail")>>),
      Policy(<<A("")>>),
      Policy(<<Include("d2", "Pass")>>),
      Policy(<<Include("d0", "Pass")>>),
      Policy(<<Redirect("d2")>>),
      Policy(<<Mx>>) >>

PoliciesD2 ==
    << Policy(<<Ip4Client>>),
      Policy(<<All("Neutral")>>),
      Policy(<<Include("d1", "Pass")>>) >>

\* Replies that are no single well-formed policy.
Misfits ==
    << Failed("ENOTFOUND"), Failed("ESERVFAIL"),
      Records(<<>>),
      Records(<< << <<Term("text", Name(""), "")>> >> >>),
      Records(<< << <<V>> >> >>),
      Records(<< << <<V>>, <<Ip4Client>> >>, << <<V, All("Fail")>> >> >>),
      Records(<< << <<V, Term("non-ascii", Name(""), "")>> >> >>),
      Records(<< << <<V, Term("syntax-error", Name(""), "")>> >> >>) >>

Exchange(priority, exchange) == [priority |-> priority, exchange |-> exchange]

\* The policies the resolver may publish for a name.  In the "small" world
\* (used where several invocations follow one another) there are few.
TxtReplies(world, hostname) ==
    IF world = "small"
    THEN CASE hostname = "d0" ->
                << Policy(<<A("")>>),
                   Policy(<<Include("d1", "Pass"), All("Fail")>>) >>
           [] hostname = "d1" -> << Policy(<<Ip4Other, A("")>>) >>
           [] OTHER -> << Records(<<>>) >>
    ELSE CASE hostname = "d0" -> PoliciesD0 \o Misfits
           [] hostname = "d1" ->
                PoliciesD1 \o <<Failed("ENOTFOUND"), Failed("ESERVFAIL")>>
           [] hostname = "d2" -> PoliciesD2 \o <<Failed("ENODATA")>>
           [] OTHER -> << Policy(<<Ip4Client>>) >>

Replies(world, hostname, rrtype) ==
    CASE rrtype = "TXT" -> TxtReplies(world, hostname)
      [] rrtype = "MX" ->
           << Failed("ESERVFAIL"),
              Records(<<>>),
              Records(<<Exchange(20, "m2"), Exchange(10, "m1")>>),
              Records(<<Exchange(10, "m1"), Exchange(20, "m2"), Exchange(30, "m1")>>) >>
      [] rrtype = "A" ->
           IF hostname = "m2" \/ world = "small"
           THEN << Records(<<Addr("ipv4", 1)>>) >>
           ELSE << Failed("ENOTFOUND"), Records(<<Addr("ipv4", 2)>>),
                   Records(<<Addr("ipv4", 2), Addr("ipv4", 1)>>) >>
      [] rrtype = "AAAA" ->
           << Failed("ESERVFAIL"), Records(<<Addr("ipv6", 1)>>) >>

Targets == {"D2", "d0", "d9", Undefined}
Domains == {"d0", InvalidDomain, Undefined}

(***************************************************************************)
(* State.                                                                  *)
(***************************************************************************)
VARIABLES
    app,      \* the application: the options it passes to every constructor,
              \* the number of invocations it makes, the world it runs in
    dns,      \* the resolver's replies so far, by <<name, record type>>
    objs,     \* the SPF objects: [domain, options, queryDNSCount]
    calls     \* the invocations: [obj, op, arg, start, hist, rejected]

vars == <<app, dns, objs, calls>>

\* The SPF object of invocation call, as its code reads it.
This(call) ==
    [domain  |-> objs[call.obj].domain,
     options |-> objs[call.obj].options,
     dns     |-> dns,
     hist    |-> call.hist]

\* Where invocation call stands: its context, recomputed from its start.
\* A call of the exported function whose constructor threw is a rejected
\* promise.
Run(call) ==
    IF call.rejected
    THEN Throw(NewContext(0), Error("Undefined domain"))
    ELSE IF call.op = "check"
    THEN check(This(call), call.arg, NewContext(call.start))
    ELSE checkInclude(This(call), call.arg, NewContext(call.start))

Pending(call) == Run(call).st = "wait"
Last(seq) == seq[Len(seq)]

\* No invocation is waiting for a lookup.
Idle == \A i \in 1 .. Len(calls) : ~Pending(calls[i])

(***************************************************************************)
(* Actions.                                                                *)
(***************************************************************************)
\* new SPF(domain, sender, options), 89-131: this.domain, or Undefined when
\* the constructor throws 'Undefined domain'.
constructor(domain, options) ==
    IF domain # Undefined THEN domain ELSE options.domain

NewSPF(domain, options) ==
    [domain |-> constructor(domain, options),
     options |-> [version |-> 1, prefetch |-> options.prefetch,
                  maxDNS |-> options.maxDNS],
     queryDNSCount |-> 0]

NewCall(obj, op, arg, start) ==
    [obj |-> obj, op |-> op, arg |-> arg, start |-> start,
     hist |-> <<>>, rejected |-> FALSE]

Options(optDomain) ==
    [domain |-> optDomain, prefetch |-> app.options.prefetch,
     maxDNS |-> app.options.maxDNS]

\* module.exports(ip, domain, sender, options), 512-517
Exported(ip, domain, optDomain) ==
    /\ IF constructor(domain, Options(optDomain)) = Undefined
       THEN /\ calls' = Append(calls, [NewCall(0, "check", ip, 0)
                                          EXCEPT !.rejected = TRUE])
            /\ objs' = objs
       ELSE /\ objs' = Append(objs, NewSPF(domain, Options(optDomain)))
            /\ calls' = Append(calls, NewCall(Len(objs) + 1, "check", ip, 0))
    /\ UNCHANGED <<app, dns>>

\* new SPF(domain, sender, options) by the application itself
Construct(domain, optDomain) ==
    /\ objs = <<>>
    /\ constructor(domain, Options(optDomain)) # Undefined
    /\ objs' = Append(objs, NewSPF(domain, Options(optDomain)))
    /\ UNCHANGED <<app, dns, calls>>

\* spf.check(ip) on an object the application holds, 316-337
Check(o, ip) ==
    /\ calls' = Append(calls, NewCall(o, "check", ip, objs[o].queryDNSCount))
    /\ UNCHANGED <<app, dns, objs>>

\* spf.checkInclude(requiredDomain), 378-393
CheckInclude(o, requiredDomain) ==
    /\ calls' = Append(calls, NewCall(o, "checkInclude", requiredDomain,
                                      objs[o].queryDNSCount))
    /\ UNCHANGED <<app, dns, objs>>

\* The callback of dns.resolve incrementing the counter for every lookup,
\* budgeted or not
DeliverCountingAll(i, q) ==
    LET key == <<q.host, q.rrtype>>
        replies == Replies(app.world, q.host, q.rrtype)
        count == objs[calls[i].obj].queryDNSCount + 1
    IN
    /\ IF key \in DOMAIN dns
       THEN dns' = dns
       ELSE \E n \in 1 .. Len(replies) : dns' = (key :> replies[n]) @@ dns
    /\ objs' = [objs EXCEPT ![calls[i].obj].queryDNSCount = count]
    /\ calls' = [calls EXCEPT ![i].hist = Append(@, count)]
    /\ UNCHANGED app

\* The callback of dns.resolve (160-180) for the lookup q that invocation i
\* is waiting for: the resolver's reply, the increment.
Deliver(i, q) ==
    LET key == <<q.host, q.rrtype>>
        replies == Replies(app.world, q.host, q.rrtype)
        count == objs[calls[i].obj].queryDNSCount + (IF q.limit THEN 1 ELSE 0)
    IN
    /\ IF key \in DOMAIN dns
       THEN dns' = dns
       ELSE \E n \in 1 .. Len(replies) : dns' = (key :> replies[n]) @@ dns
    /\ objs' = [objs EXCEPT ![calls[i].obj].queryDNSCount = count]
    /\ calls' = [calls EXCEPT ![i].hist = Append(@, count)]
    /\ UNCHANGED app

\* What the callback does when invocation i stands at run.
Resume(i, run) == run.st = "wait" /\ Deliver(i, Last(run.log))

\* The callback of the pending lookup of invocation i, and everything the
\* invocation does until its next lookup or its end.
Callback(i) == \E run \in {Run(calls[i])} : Resume(i, run)

Apps(calls_, world) ==
    [options : [prefetch : BOOLEAN, maxDNS : 1 .. MaxBudget],
     calls : {calls_}, world : {world}]

Start(calls_, world) ==
    /\ app \in Apps(calls_, world)
    /\ dns = <<>>
    /\ objs = <<>>
    /\ calls = <<>>

\* One invocation, in the full world.
Init == Start(1, "full")

\* MaxCalls invocations one after another, in the small world.
InitSeq == Start(MaxCalls, "small")

\* The application makes its invocations one after another, app.calls of
\* them.
MayInvoke == Len(calls) < app.calls /\ Idle

Next ==
    \/ \E ip \in IPs, domain \in Domains, optDomain \in {"d0", Undefined} :
          MayInvoke /\ Exported(ip, domain, optDomain)
    \/ \E domain \in Domains, optDomain \in {"d0", Undefined} :
          Construct(domain, optDomain)
    \/ \E o \in 1 .. Len(objs), ip \in IPs : MayInvoke /\ Check(o, ip)
    \/ \E o \in 1 .. Len(objs), requiredDomain \in Targets :
          MayInvoke /\ CheckInclude(o, requiredDomain)
    \/ \E i \in 1 .. Len(calls) : Callback(i)

Spec == Init /\ [][Next]_vars

SpecSeq == InitSeq /\ [][Next]_vars

\* One invocation, every callback of a pending lookup being delivered in
\* the end (the resolver answers or times out).
FairSpec == Spec /\ WF_vars(\E i \in 1 .. Len(calls) : Callback(i))

\* The application starts an invocation without awaiting the one before
\* (Promise.all([spf.check(ip), spf.check(ip)])): the round trips of the
\* invocations interleave, each callback running to its invocation's next
\* lookup before another callback is delivered.
MayStart == Len(calls) < app.calls

NextPar ==
    \/ \E ip \in IPs, domain \in Domains, optDomain \in {"d0", Undefined} :
          MayStart /\ Exported(ip, domain, optDomain)
    \/ \E domain \in Domains, optDomain \in {"d0", Undefined} :
          Construct(domain, optDomain)
    \/ \E o \in 1 .. Len(objs), ip \in IPs : MayStart /\ Check(o, ip)
    \/ \E o \in 1 .. Len(objs), requiredDomain \in Targets :
          MayStart /\ CheckInclude(o, requiredDomain)
    \/ \E i \in 1 .. Len(calls) : Callback(i)

\* MaxCalls invocations whose round trips interleave, in the small world.
SpecPar == InitSeq /\ [][NextPar]_vars

(***************************************************************************)
(* What an invocation has done so far, read off its context.               *)
(***************************************************************************)
\* The invocation has returned (or its promise is rejected).
Done(run) == run.st # "wait"

\* The Result the invocation returned.
Returned(run, result) == run.st = "ok" /\ run.val.result = result

Malformed(call) ==
    /\ ~call.rejected
    /\ call.op = "check"
    /\ ~isValidIP(call.arg) \/ ~isValidDomain(objs[call.obj].domain)

\* The invocation asked the resolver nothing and left the counter alone.
NoLookup(call, run) ==
    /\ run.log = <<>>
    /\ call.hist = <<>>
    /\ run.cnt = call.start
    /\ call.start = 0 => run.cnt = 0

(***************************************************************************)
(* C1.  A check with a malformed client address or a malformed domain      *)
(* returns None and issues no DNS lookup: the query counter stays where    *)
(* it was, 0 on a fresh object.                                            *)
(***************************************************************************)
C1_MalformedIsNone ==
    \A i \in 1 .. Len(calls) :
        Malformed(calls[i]) =>
            /\ Returned(Run(calls[i]), "None")
            /\ NoLookup(calls[i], Run(calls[i]))

\* Both cases have happened: a malformed address with a well-formed domain,
\* and a malformed domain with a well-formed address.
C1_Witness ==
    /\ \E i \in 1 .. Len(calls) :
          /\ Malformed(calls[i])
          /\ ~isValidIP(calls[i].arg)
          /\ isValidDomain(objs[calls[i].obj].domain)
          /\ objs[calls[i].obj].queryDNSCount = 0
    /\ \E i \in 1 .. Len(calls) :
          /\ Malformed(calls[i])
          /\ isValidIP(calls[i].arg)
          /\ ~isValidDomain(objs[calls[i].obj].domain)


(***************************************************************************)
(* C2.  Throughout a check the DNS query counter only grows, by one per    *)
(* budgeted lookup completed, it never exceeds maxDNS, and it is one       *)
(* counter for all branches: what the invocation reads is what the object  *)
(* holds, namely the counter at the start plus the budgeted lookups        *)
(* completed so far for the policy itself, for nested include policies,    *)
(* for redirected policies and for a and mx mechanisms together.           *)
(***************************************************************************)
\* The budgeted lookups among the first n of a log.
Budgeted(log, n) == {j \in 1 .. n : log[j].limit}

\* The counter before the j-th callback of an invocation.
Before(call, j) == IF j = 1 THEN call.start ELSE call.hist[j - 1]

CounterFrame(call, run) ==
    /\ run.cnt = call.start + Cardinality(Budgeted(run.log, Len(call.hist)))
    /\ run.cnt <= objs[call.obj].options.maxDNS
    /\ \A j \in 1 .. Len(call.hist) :
          call.hist[j] = Before(call, j) + (IF run.log[j].limit THEN 1 ELSE 0)

\* C2: every object's counter is within 0 .. maxDNS, every invocation's
\* counter grows by one per budgeted callback and by nothing else, and the
\* running invocation reads the counter its object holds.
C2_OneCounter ==
    /\ \A o \in 1 .. Len(objs) :
          objs[o].queryDNSCount \in 0 .. objs[o].options.maxDNS
    /\ \A i \in 1 .. Len(calls) :
          ~calls[i].rejected =>
             /\ CounterFrame(calls[i], Run(calls[i]))
             /\ i = Len(calls) =>
                   objs[calls[i].obj].queryDNSCount = Run(calls[i]).cnt

\* The branches on whose behalf budgeted lookups were completed.
Branches(call, run) ==
    {run.log[j].for : j \in Budgeted(run.log, Len(call.hist))}

\* A check has returned after budgeted lookups for the policy, for an
\* included policy and for an a mechanism in it, and the counter is 3.
C2_Witness ==
    \E i \in 1 .. Len(calls) :
        /\ ~calls[i].rejected
        /\ Done(Run(calls[i]))
        /\ {"check", "include", "a"} \subseteq Branches(calls[i], Run(calls[i]))
        /\ objs[calls[i].obj].queryDNSCount = 3


(***************************************************************************)
(* C3.  Once maxDNS budgeted lookups have completed in a check, the next   *)
(* budgeted lookup is refused before it reaches the resolver, at whatever  *)
(* depth of include or redirect it is attempted, and the invocation ends   *)
(* with PermError: the resolver is never asked more than maxDNS budgeted   *)
(* lookups.                                                                *)
(***************************************************************************)
Refusal(call, run) ==
    /\ Len(run.refused) = 1
    /\ run.cnt = objs[call.obj].options.maxDNS
    /\ call.start = 0 =>
          Cardinality(Budgeted(run.log, Len(call.hist)))
             = objs[call.obj].options.maxDNS
    /\ Len(run.log) = Len(call.hist)
    /\ Returned(run, "PermError")
    /\ run.val.message = "Limit of DNS lookups reached"

BudgetKept(call, run) ==
    /\ Cardinality(Budgeted(run.log, Len(run.log)))
          <= objs[call.obj].options.maxDNS
    /\ run.refused # <<>> => Refusal(call, run)
    /\ (/\ run.st = "wait"
        /\ Last(run.log).limit) =>
            Cardinality(Budgeted(run.log, Len(call.hist)))
               < objs[call.obj].options.maxDNS

\* C3: no invocation hands the resolver more than maxDNS budgeted lookups;
\* a lookup is refused only at the limit, and then the invocation returns
\* PermError 'Limit of DNS lookups reached'.
C3_RefusedAtLimit ==
    \A i \in 1 .. Len(calls) :
        ~calls[i].rejected => BudgetKept(calls[i], Run(calls[i]))

\* A lookup was refused inside an included or redirected policy, and the
\* invocation has returned PermError.
C3_Witness ==
    \E i \in 1 .. Len(calls) :
        /\ ~calls[i].rejected
        /\ Run(calls[i]).refused # <<>>
        /\ Run(calls[i]).refused[1].depth >= 1
        /\ Run(calls[i]).refused[1].for \in {"include", "redirect"}
        /\ Returned(Run(calls[i]), "PermError")


(***************************************************************************)
(* C4.  A check in which nothing failed returns the outcome that the       *)
(* qualifier of the first matching mechanism names, the mechanisms being   *)
(* tried in the order of the resolved list (declared order, a redirect     *)
(* replaced by the mechanisms of its target); when none matches it         *)
(* returns Neutral.                                                        *)
(***************************************************************************)
\* Nothing was thrown during the invocation.
NoFailure(run) == run.st = "ok" /\ run.err = Error("")

\* The mechanisms of the top-level list that were tried, in the order tried.
Tried(run) == SelectSeq(run.ev, LAMBDA e : e.depth = 0)

\* What is certain of a match from the mechanism alone.
Fits(mechanism, addr, hit) ==
    CASE mechanism.type = "all" -> hit
      [] mechanism.type = "version" -> ~hit
      [] mechanism.type \in {"ip4", "ip6"} ->
           hit <=> /\ mechanism.value.kind = addr.kind
                   /\ mechanism.value.a = addr.a
      [] mechanism.type = "a" /\ has(mechanism, "records") ->
           hit <=> \E j \in 1 .. Len(mechanism.records) :
                      /\ mechanism.records[j].kind = addr.kind
                      /\ mechanism.records[j].a = addr.a
      [] OTHER -> TRUE

FirstMatch(call, run) ==
    LET tried == Tried(run)
        n == Len(tried)
    IN
    /\ n <= Len(run.mechs)
    /\ \A j \in 1 .. n :
          /\ tried[j].i = j
          /\ tried[j].type = run.mechs[j].type
          /\ tried[j].prefixdesc = run.mechs[j].prefixdesc
          /\ Fits(run.mechs[j], parseIP(call.arg), tried[j].hit)
          /\ j < n => ~tried[j].hit
    /\ IF n > 0 /\ tried[n].hit
       THEN /\ run.val.result = tried[n].prefixdesc
            /\ run.val.mechanism = tried[n].type
       ELSE /\ n = Len(run.mechs)
            /\ run.val.result = "Neutral"

\* C4: a check without failure returns the outcome of the first mechanism
\* of the resolved list that matches, Neutral when none does.
C4_FirstMatchWins ==
    \A i \in 1 .. Len(calls) :
        (/\ ~calls[i].rejected
         /\ calls[i].op = "check"
         /\ ~Malformed(calls[i])
         /\ NoFailure(Run(calls[i]))) => FirstMatch(calls[i], Run(calls[i]))

\* A check returned SoftFail from an all mechanism that came from a
\* redirected policy, after mechanisms before it had been tried without a
\* match.
C4_Witness ==
    \E i \in 1 .. Len(calls) :
        /\ ~calls[i].rejected
        /\ calls[i].op = "check"
        /\ NoFailure(Run(calls[i]))
        /\ Len(Tried(Run(calls[i]))) >= 3
        /\ Last(Tried(Run(calls[i]))).hit
        /\ Last(Tried(Run(calls[i]))).type = "all"
        /\ Run(calls[i]).val.result = "SoftFail"
        /\ \E j \in 1 .. Len(Run(calls[i]).log) :
              Run(calls[i]).log[j].for = "redirect"


(***************************************************************************)
(* C5.  Every invocation terminates whatever the resolver publishes,       *)
(* cycles of include and redirect included: a step into an included or     *)
(* redirected policy is preceded by a budgeted lookup of its own, so the   *)
(* depth of the recursion is at most maxDNS, and an invocation that        *)
(* follows a cycle (fetches a policy while it is inside that same policy)  *)
(* ends in PermError.                                                      *)
(***************************************************************************)
DepthBounded(call, run) ==
    /\ run.maxDepth <= Cardinality(Budgeted(run.log, Len(call.hist)))
    /\ run.maxDepth <= objs[call.obj].options.maxDNS
    /\ run.depth <= run.maxDepth

\* The lookup that fetched the policy on whose behalf lookup k is made: the
\* last fetch of log[k].from before k (0: there is none, k fetches the
\* policy of the domain itself).
Parent(log, k) ==
    LET fetches == {j \in 1 .. (k - 1) :
                      log[j].rrtype = "TXT" /\ log[j].host = log[k].from}
    IN  IF fetches = {} THEN 0
        ELSE CHOOSE j \in fetches : \A m \in fetches : m <= j

\* The names of the policies lookup k is nested in.
RECURSIVE Enclosing(_, _)
Enclosing(log, k) ==
    IF Parent(log, k) = 0 THEN {}
    ELSE {log[Parent(log, k)].host} \cup Enclosing(log, Parent(log, k))

\* The invocation went round a cycle: it fetched, for an include or a
\* redirect, the policy of a name while it was inside that policy.
Reentered(log) ==
    \E k \in 1 .. Len(log) :
        /\ log[k].rrtype = "TXT"
        /\ log[k].for \in {"include", "redirect"}
        /\ log[k].host \in Enclosing(log, k)

Started(i) == Len(calls) >= i

Finished(i) == Len(calls) >= i /\ Done(Run(calls[i]))

\* C5, safety part: the depth of include and redirect steps is at most the
\* number of budgeted lookups completed, hence at most maxDNS, and an
\* invocation that went round a cycle returns PermError.
C5_DepthAndCycles ==
    \A i \in 1 .. Len(calls) :
        ~calls[i].rejected =>
           /\ DepthBounded(calls[i], Run(calls[i]))
           /\ (Done(Run(calls[i])) /\ Reentered(Run(calls[i]).log)) =>
                 Returned(Run(calls[i]), "PermError")

\* C5: the safety part always holds, and the invocation, once it has
\* started, returns in the end (one invocation is made, see Init).
C5_Terminates ==
    /\ []C5_DepthAndCycles
    /\ Started(1) ~> Finished(1)

\* An invocation went round a cycle down to depth maxDNS and has returned.
C5_Witness ==
    \E i \in 1 .. Len(calls) :
        /\ ~calls[i].rejected
        /\ Done(Run(calls[i]))
        /\ Reentered(Run(calls[i]).log)
        /\ Run(calls[i]).maxDepth = objs[calls[i].obj].options.maxDNS
        /\ Run(calls[i]).maxDepth >= 2

\* The include and redirect graph of what the resolver has published:
\* name h holds a policy with an include or a redirect of name t.
Edge(h, t) ==
    /\ <<h, "TXT">> \in DOMAIN dns
    /\ ~dns[<<h, "TXT">>].error
    /\ \E r \in 1 .. Len(dns[<<h, "TXT">>].records) :
          \E n \in 1 .. Len(join(dns[<<h, "TXT">>].records[r])) :
              /\ join(dns[<<h, "TXT">>].records[r])[n].type
                    \in {"include", "redirect"}
              /\ join(dns[<<h, "TXT">>].records[r])[n].value.name = t

Names == {"d0", "d1", "d2"}

Cyclic ==
    \E a, b, c \in Names :
        \/ Edge(a, a)
        \/ Edge(a, b) /\ Edge(b, a)
        \/ Edge(a, b) /\ Edge(b, c) /\ Edge(c, a)

\* C5 as it was stated: over a cyclic graph an invocation ends in
\* PermError.
C5_CyclicEndsPermError ==
    \A i \in 1 .. Len(calls) :
        (/\ ~calls[i].rejected
         /\ ~Malformed(calls[i])
         /\ Cyclic
         /\ Done(Run(calls[i]))) => Returned(Run(calls[i]), "PermError")

(***************************************************************************)
(* C6.  An invocation of check or checkInclude on an SPF object, and an    *)
(* invocation of the exported function whose domain is a string or whose   *)
(* options name a domain, never throws and never rejects: when it          *)
(* completes, it completes with a Result of one of the seven outcomes,     *)
(* whatever the inputs and the resolver's replies.  The exported function  *)
(* called with no domain at all rejects with 'Undefined domain'.           *)
(***************************************************************************)
IsResult(val) ==
    /\ isSPFResult(val)
    /\ val.result \in {"None", "Neutral", "Pass", "Fail", "SoftFail",
                       "TempError", "PermError"}

Terms(h) ==
    IF /\ <<h, "TXT">> \in DOMAIN dns
       /\ ~dns[<<h, "TXT">>].error
       /\ Len(dns[<<h, "TXT">>].records) = 1
    THEN join(dns[<<h, "TXT">>].records[1])
    ELSE <<>>

Holds(terms, type) == \E n \in 1 .. Len(terms) : terms[n].type = type

\* A policy's own mechanisms up to its first all, its redirect left out.
RECURSIVE OwnUpToAll(_)
OwnUpToAll(terms) ==
    IF terms = <<>> THEN <<>>
    ELSE IF Head(terms).type = "all" THEN <<Head(terms)>>
    ELSE IF Head(terms).type = "redirect" THEN OwnUpToAll(Tail(terms))
    ELSE <<Head(terms)>> \o OwnUpToAll(Tail(terms))

\* What a resolved mechanism was in the record.
AsWritten(mechanisms) ==
    [n \in 1 .. Len(mechanisms) |->
        [type |-> mechanisms[n].type, name |-> mechanisms[n].value.name,
         kind |-> mechanisms[n].value.kind, a |-> mechanisms[n].value.a,
         prefixdesc |-> mechanisms[n].prefixdesc]]

RedirectIgnored(call, run) ==
    /\ \A j \in 1 .. Len(run.log) :
          run.log[j].for = "redirect" => ~Holds(Terms(run.log[j].from), "all")
    /\ (/\ run.mechs # <<>>
        /\ Holds(Terms(objs[call.obj].domain), "all")
        /\ Holds(Terms(objs[call.obj].domain), "redirect")) =>
           AsWritten(run.mechs) = AsWritten(OwnUpToAll(Terms(objs[call.obj].domain)))

\* C7: no lookup is made for the redirect of a policy that has an all
\* mechanism, and the resolved list of such a policy is its own mechanisms
\* up to its first all.
C7_RedirectWithAllIgnored ==
    \A i \in 1 .. Len(calls) :
        ~calls[i].rejected => RedirectIgnored(calls[i], Run(calls[i]))

\* An invocation has returned on a policy whose redirect stands before its
\* all mechanism.
C7_Witness ==
    \E i \in 1 .. Len(calls) :
        /\ ~calls[i].rejected
        /\ Done(Run(calls[i]))
        /\ Run(calls[i]).mechs # <<>>
        /\ Len(Terms(objs[calls[i].obj].domain)) >= 3
        /\ Terms(objs[calls[i].obj].domain)[2].type = "redirect"
        /\ Terms(objs[calls[i].obj].domain)[3].type = "all"

(***************************************************************************)
(* C8.  Mechanisms that stand after an all mechanism in the resolved list  *)
(* are never resolved (no lookup is made for them) and never matched,      *)
(* with prefetch on and off, also when the all mechanism came into the     *)
(* list from a redirected policy.                                          *)
(***************************************************************************)
\* The mechanism carries what its resolve() returned.
Resolved(mechanism) ==
    \/ has(mechanism, "records")
    \/ has(mechanism, "exchanges")
    \/ has(mechanism, "includes")

AfterAll(mechanisms, n) == \E m \in 1 .. (n - 1) : mechanisms[m].type = "all"

NothingAfterAll(run) ==
    /\ \A n \in 1 .. Len(run.mechs) :
          AfterAll(run.mechs, n) => ~Resolved(run.mechs[n])
    /\ \A n \in 1 .. Len(Tried(run)) :
          Tried(run)[n].i <= Len(run.mechs) =>
             ~AfterAll(run.mechs, Tried(run)[n].i)

\* C8: in no invocation is a mechanism that stands after an all mechanism
\* of the resolved list resolved or matched.
C8_NothingAfterAll ==
    \A i \in 1 .. Len(calls) :
        ~calls[i].rejected => NothingAfterAll(Run(calls[i]))

(***************************************************************************)
(* C9.  Idempotence: with the resolver's replies fixed, two checks with    *)
(* the same arguments (client address, domain, options) return the same    *)
(* Result: the same outcome, mechanism and matched list.                   *)
(***************************************************************************)
SameArguments(i, j) ==
    /\ ~calls[i].rejected /\ ~calls[j].rejected
    /\ calls[i].op = "check" /\ calls[j].op = "check"
    /\ calls[i].arg = calls[j].arg
    /\ objs[calls[i].obj].domain = objs[calls[j].obj].domain
    /\ objs[calls[i].obj].options = objs[calls[j].obj].options

SameResult(r, s) ==
    /\ r.val.result = s.val.result
    /\ r.val.mechanism = s.val.mechanism
    /\ r.val.matched = s.val.matched

\* C9: two checks with the same arguments that have both returned have
\* returned the same outcome, mechanism and matched list.
C9_Idempotent ==
    \A i, j \in 1 .. Len(calls) :
        (/\ i < j
         /\ SameArguments(i, j)
         /\ Done(Run(calls[i])) /\ Done(Run(calls[j]))) =>
            SameResult(Run(calls[i]), Run(calls[j]))

(***************************************************************************)
(* C10.  Every invocation of check or checkInclude has a context of its    *)
(* own: the counter it starts with is 0 and the counter it reads is the    *)
(* number of its own budgeted lookups completed, also when it follows      *)
(* another invocation on the same SPF object.                              *)
(***************************************************************************)
OwnCounter(call, run) ==
    /\ call.start = 0
    /\ run.cnt = Cardinality(Budgeted(run.log, Len(call.hist)))

\* C10: every invocation starts with counter 0 and reads the number of its
\* own budgeted lookups completed.
C10_CounterStartsAtZero ==
    \A i \in 1 .. Len(calls) :
        ~calls[i].rejected => OwnCounter(calls[i], Run(calls[i]))

(***************************************************************************)
(* C11.  Invocations whose DNS round trips interleave do not interfere:    *)
(* no object's counter exceeds maxDNS, and an invocation that started on   *)
(* an object whose counter was 0 reads, as its counter, the number of its  *)
(* own budgeted lookups completed (so that its lookups and its outcome are *)
(* those it has when it runs alone).                                       *)
(***************************************************************************)
\* Invocations i and j are in flight together.
Interleaved(i, j) ==
    /\ i # j
    /\ Len(calls[i].hist) > 0 /\ Len(calls[j].hist) > 0
    /\ ~calls[i].rejected /\ ~calls[j].rejected

Isolated(call, run) ==
    call.start = 0 =>
        run.cnt = Cardinality(Budgeted(run.log, Len(call.hist)))

\* C11: every counter is within maxDNS and every invocation that started
\* at 0 counts its own budgeted lookups only.
C11_NoInterference ==
    /\ \A o \in 1 .. Len(objs) :
          objs[o].queryDNSCount <= objs[o].options.maxDNS
    /\ \A i \in 1 .. Len(calls) :
          ~calls[i].rejected => Isolated(calls[i], Run(calls[i]))

(***************************************************************************)
(* C12.  An include mechanism matches if and only if the evaluation of its *)
(* nested policy against the same client address yields Pass; after a      *)
(* nested Fail, SoftFail or Neutral it does not match and the evaluation   *)
(* goes on with the next mechanism of the outer policy.                    *)
(***************************************************************************)
\* The includes that match() was asked about, at any depth.
Included(run) == SelectSeq(run.ev, LAMBDA e : e.type = "include")

\* After a top-level include that did not match, the next mechanism of the
\* list is tried, or the list is at its end.
GoesOn(run) ==
    \A j \in 1 .. Len(Tried(run)) :
        (/\ Tried(run)[j].type = "include"
         /\ ~Tried(run)[j].hit
         /\ NoFailure(run)
         /\ j < Len(run.mechs)) =>
            /\ Len(Tried(run)) > j
            /\ Tried(run)[j + 1].i = j + 1
            /\ Tried(run)[j + 1].type = run.mechs[j + 1].type

IncludeIffPass(run) ==
    /\ \A n \in 1 .. Len(Included(run)) :
          /\ Included(run)[n].nested \in {"Pass", "Fail", "SoftFail", "Neutral"}
          /\ Included(run)[n].hit <=> Included(run)[n].nested = "Pass"
    /\ GoesOn(run)

\* C12: in every check, an include matched exactly when its nested policy
\* evaluated to Pass, and a top-level include that did not match was
\* followed by the next mechanism.
C12_IncludeMatchesIffPass ==
    \A i \in 1 .. Len(calls) :
        (~calls[i].rejected /\ calls[i].op = "check") =>
            IncludeIffPass(Run(calls[i]))

\* A check has returned after an include whose nested policy gave Fail did
\* not match and a later include whose nested policy gave Pass matched.
C12_Witness ==
    \E i \in 1 .. Len(calls) :
        /\ ~calls[i].rejected
        /\ calls[i].op = "check"
        /\ NoFailure(Run(calls[i]))
        /\ \E j, k \in 1 .. Len(Tried(Run(calls[i]))) :
              /\ j < k
              /\ Tried(Run(calls[i]))[j].type = "include"
              /\ Tried(Run(calls[i]))[j].nested = "Fail"
              /\ ~Tried(Run(calls[i]))[j].hit
              /\ Tried(Run(calls[i]))[k].type = "include"
              /\ Tried(Run(calls[i]))[k].nested = "Pass"
              /\ Tried(Run(calls[i]))[k].hit

(***************************************************************************)
(* C13.  A check that reaches an include whose sub-policy is None (the     *)
(* included name does not exist, or publishes no record that begins with   *)
(* the version tag) ends with PermError, not with None.                    *)
(***************************************************************************)
\* What the resolver has published for name h makes its policy None.
NonePolicy(h) ==
    /\ <<h, "TXT">> \in DOMAIN dns
    /\ IF dns[<<h, "TXT">>].error
       THEN dns[<<h, "TXT">>].code \in {"ENOTFOUND", "ENODATA"}
       ELSE \A r \in 1 .. Len(dns[<<h, "TXT">>].records) :
               ~startsWithVersion(join(dns[<<h, "TXT">>].records[r]), 1)

\* The invocation has fetched, for an include, a policy that is None.
IncludedNone(call, run) ==
    \E j \in 1 .. Len(call.hist) :
        /\ run.log[j].rrtype = "TXT"
        /\ run.log[j].for = "include"
        /\ NonePolicy(run.log[j].host)

\* C13: a check that has fetched a None policy for an include and has
\* returned has returned PermError.
C13_IncludedNoneIsPermError ==
    \A i \in 1 .. Len(calls) :
        (/\ ~calls[i].rejected
         /\ calls[i].op = "check"
         /\ IncludedNone(calls[i], Run(calls[i]))
         /\ Done(Run(calls[i]))) => Returned(Run(calls[i]), "PermError")

(***************************************************************************)
(* C14.  A typed failure raised at any depth of resolution or evaluation   *)
(* is what the check returns, unchanged: a lookup that fails, at the top   *)
(* level or inside an include or redirect chain, is the last lookup of     *)
(* the check, which returns TempError with the resolver's error text       *)
(* (None when it is the name-not-found failure of a policy fetch), and a   *)
(* lookup refused at the limit makes it return that PermError.             *)
(***************************************************************************)
\* The reply the resolver gave to lookup q.
Reply(q) == dns[<<q.host, q.rrtype>>]

\* The lookup was answered with the name-not-found failure the gateway
\* maps to None.
NotFound(q) ==
    /\ q.rrtype = "TXT"
    /\ Reply(q).code \in {"ENOTFOUND", "ENODATA"}

\* The check returned the typed failure of the failed lookup q.
ReturnedFailureOf(run, q) ==
    IF NotFound(q)
    THEN /\ Returned(run, "None")
         /\ run.val.message = "Domain does not exists"
    ELSE /\ Returned(run, "TempError")
         /\ run.val.message = Reply(q).code

FailurePropagates(call, run) ==
    /\ \A j \in 1 .. Len(call.hist) :
          Reply(run.log[j]).error =>
             /\ j = Len(run.log)
             /\ ReturnedFailureOf(run, run.log[j])
    /\ run.refused # <<>> =>
          /\ Len(run.log) = Len(call.hist)
          /\ Returned(run, "PermError")
          /\ run.val.message = "Limit of DNS lookups reached"
    /\ (Done(run) /\ run.err # Error("")) =>
          /\ run.val = run.err
          /\ run.val.result \in {"None", "TempError", "PermError"}

\* C14: in every check, a failed lookup is the last one and its typed
\* failure is the Result returned, whatever the depth it failed at.
C14_FailurePropagates ==
    \A i \in 1 .. Len(calls) :
        (/\ ~calls[i].rejected
         /\ calls[i].op = "check"
         /\ ~Malformed(calls[i])) => FailurePropagates(calls[i], Run(calls[i]))

\* A lookup inside an include or redirect chain, after at least two
\* lookups that succeeded, failed with a server failure and the check has
\* returned TempError.
C14_Witness ==
    \E i \in 1 .. Len(calls) :
        /\ ~calls[i].rejected
        /\ calls[i].op = "check"
        /\ Len(calls[i].hist) >= 3
        /\ Len(Run(calls[i]).log) = Len(calls[i].hist)
        /\ Last(Run(calls[i]).log).depth >= 1
        /\ Reply(Last(Run(calls[i]).log)).error
        /\ Reply(Last(Run(calls[i]).log)).code = "ESERVFAIL"
        /\ Returned(Run(calls[i]), "TempError")

(***************************************************************************)
(* C15.  A lookup that fails with the resolver's name-not-found or no-data *)
(* error for the queried name makes the gateway fail with None ('Domain    *)
(* does not exists'), whatever the record type asked (TXT, A, AAAA, MX).   *)
(***************************************************************************)
\* Lookup q was answered with name not found or no data.
NameNotFound(q) ==
    /\ Reply(q).error
    /\ Reply(q).code \in {"ENOTFOUND", "ENODATA"}

\* C15: a check in which a lookup was answered with name not found or no
\* data has returned None.
C15_NotFoundIsNone ==
    \A i \in 1 .. Len(calls) :
        (/\ ~calls[i].rejected
         /\ calls[i].op = "check") =>
            \A j \in 1 .. Len(calls[i].hist) :
                NameNotFound(Run(calls[i]).log[j]) =>
                    /\ Returned(Run(calls[i]), "None")
                    /\ Run(calls[i]).val.message = "Domain does not exists"

(***************************************************************************)
(* C16.  For the checked domain, a TXT answer in which no record begins    *)
(* with the version tag gives None and an answer in which more than one    *)
(* does gives PermError; in both cases the check ends with exactly one     *)
(* lookup issued.                                                          *)
(***************************************************************************)
\* The records of the answer for name h that begin with the version tag.
Qualifying(h) ==
    {r \in 1 .. Len(dns[<<h, "TXT">>].records) :
        startsWithVersion(join(dns[<<h, "TXT">>].records[r]), 1)}

\* The policy fetch of the checked domain has been answered with records.
Answered(call) ==
    /\ ~call.rejected
    /\ call.op = "check"
    /\ ~Malformed(call)
    /\ Len(call.hist) >= 1
    /\ ~dns[<<objs[call.obj].domain, "TXT">>].error

OneLookup(call, run) ==
    /\ Len(run.log) = 1
    /\ Len(call.hist) = 1
    /\ run.log[1].host = objs[call.obj].domain
    /\ run.log[1].rrtype = "TXT"
    /\ objs[call.obj].queryDNSCount = 1

NoneOrAmbiguous(call, run) ==
    LET n == Cardinality(Qualifying(objs[call.obj].domain))
    IN  /\ n = 0 =>
             /\ Returned(run, "None")
             /\ run.val.message = "Assume that the domain makes no SPF declarations"
             /\ OneLookup(call, run)
        /\ n > 1 =>
             /\ Returned(run, "PermError")
             /\ run.val.message = "There should be exactly one record remaining"
             /\ OneLookup(call, run)

\* C16: a check whose policy fetch was answered with no record, or with
\* more than one record, that begins with the version tag has returned
\* None, or PermError, after that one lookup.
C16_NoneOrAmbiguous ==
    \A i \in 1 .. Len(calls) :
        Answered(calls[i]) => NoneOrAmbiguous(calls[i], Run(calls[i]))

\* A check was answered with two records that begin with the version tag
\* and has returned PermError.
C16_Witness ==
    \E i \in 1 .. Len(calls) :
        /\ Answered(calls[i])
        /\ Cardinality(Qualifying(objs[calls[i].obj].domain)) = 2
        /\ Returned(Run(calls[i]), "PermError")
        /\ Len(Run(calls[i]).log) = 1

(***************************************************************************)
(* C17.  When the MX lookup of an mx mechanism answers with as many        *)
(* exchanges as maxDNS or more, the resolution fails with PermError before *)
(* any address lookup for an exchange is issued; when it answers with      *)
(* fewer, the address of each exchange is looked up and the exchanges are  *)
(* returned in ascending order of priority with their address records.     *)
(***************************************************************************)
\* The exchanges are in ascending order of priority.
Ascending(exchanges) ==
    \A e \in 1 .. (Len(exchanges) - 1) :
        exchanges[e].priority <= exchanges[e + 1].priority

\* The exchanges are those of an answer, each with the address records the
\* resolver has for it.
Attached(exchanges, answer, rrtype) ==
    /\ Len(exchanges) = Len(answer)
    /\ \A a \in 1 .. Len(answer) :
          Cardinality({e \in 1 .. Len(exchanges) :
                          /\ exchanges[e].exchange = answer[a].exchange
                          /\ exchanges[e].priority = answer[a].priority})
             = Cardinality({b \in 1 .. Len(answer) : answer[b] = answer[a]})
    /\ \A e \in 1 .. Len(exchanges) :
          /\ <<exchanges[e].exchange, rrtype>> \in DOMAIN dns
          /\ ~dns[<<exchanges[e].exchange, rrtype>>].error
          /\ exchanges[e].records = dns[<<exchanges[e].exchange, rrtype>>].records

\* The MX lookups of the invocation that have been answered with records.
AnsweredMX(call, run) ==
    {j \in 1 .. Len(call.hist) :
        run.log[j].rrtype = "MX" /\ ~Reply(run.log[j]).error}

\* What follows the j-th lookup, an MX lookup answered with records.
AfterMX(call, run, j) ==
    LET answer == Reply(run.log[j]).records
    IN  IF Len(answer) >= objs[call.obj].options.maxDNS
        THEN /\ j = Len(run.log)
             /\ Returned(run, "PermError")
             /\ run.val.message =
                   "Limit of DNS lookups reached when processing MX mechanism"
        ELSE \A e \in 1 .. Len(answer) :
                j + e <= Len(run.log) =>
                   /\ run.log[j + e].host = answer[e].exchange
                   /\ run.log[j + e].rrtype \in {"A", "AAAA"}
                   /\ ~run.log[j + e].limit

\* The exchanges an mx mechanism was resolved to, where they can be seen:
\* when match() was asked, and in the list getMechanisms returned.
ExchangesReturned(call, run) ==
    /\ \A n \in 1 .. Len(run.ev) :
          run.ev[n].type = "mx" =>
             /\ Ascending(run.ev[n].exchanges)
             /\ \E j \in AnsweredMX(call, run) :
                   Attached(run.ev[n].exchanges, Reply(run.log[j]).records,
                            IF parseIP(call.arg).kind = "ipv4" THEN "A" ELSE "AAAA")
             /\ Len(run.ev[n].exchanges) < objs[call.obj].options.maxDNS
    /\ \A n \in 1 .. Len(run.mechs) :
          has(run.mechs[n], "exchanges") =>
             /\ Ascending(run.mechs[n].exchanges)
             /\ \E j \in AnsweredMX(call, run) :
                   Attached(run.mechs[n].exchanges, Reply(run.log[j]).records,
                            IF parseIP(call.arg).kind = "ipv4" THEN "A" ELSE "AAAA")

\* C17: in every check, an MX answer of maxDNS exchanges or more ends the
\* check with PermError and no further lookup, and an mx mechanism that
\* was resolved holds the answer's exchanges in ascending priority with
\* their address records.
C17_ExchangesWithinLimit ==
    \A i \in 1 .. Len(calls) :
        (/\ ~calls[i].rejected
         /\ calls[i].op = "check"
         /\ ~Malformed(calls[i])) =>
            /\ \A j \in AnsweredMX(calls[i], Run(calls[i])) :
                  AfterMX(calls[i], Run(calls[i]), j)
            /\ ExchangesReturned(calls[i], Run(calls[i]))

\* An mx mechanism was resolved from an answer that was not in order of
\* priority, and match() was asked about it.
C17_Witness ==
    \E i \in 1 .. Len(calls) :
        /\ ~calls[i].rejected
        /\ calls[i].op = "check"
        /\ \E n \in 1 .. Len(Run(calls[i]).ev) :
              /\ Run(calls[i]).ev[n].type = "mx"
              /\ Len(Run(calls[i]).ev[n].exchanges) >= 2
              /\ <<objs[calls[i].obj].domain, "MX">> \in DOMAIN dns
              /\ ~Ascending(dns[<<objs[calls[i].obj].domain, "MX">>].records)

(***************************************************************************)
(* C18.  Every completed budgeted lookup (a policy fetch, the address      *)
(* lookup of an a mechanism, the MX lookup of an mx mechanism) adds        *)
(* exactly one to the query counter, whether it succeeded or failed; the   *)
(* address lookups for the exchanges of an mx mechanism leave the counter  *)
(* as it is: more lookups than maxDNS can be issued while the counter      *)
(* stays within maxDNS.                                                    *)
(***************************************************************************)
\* Lookup q is the address lookup of an exchange of an mx mechanism.
ForExchange(q) == q.for = "mx" /\ q.rrtype \in {"A", "AAAA"}

CountsBudgeted(call, run) ==
    /\ \A j \in 1 .. Len(run.log) : run.log[j].limit <=> ~ForExchange(run.log[j])
    /\ \A j \in 1 .. Len(call.hist) :
          call.hist[j] = Before(call, j) + (IF ForExchange(run.log[j]) THEN 0 ELSE 1)
    /\ objs[call.obj].queryDNSCount <= objs[call.obj].options.maxDNS

Listed(h) ==
    IF Holds(Terms(h), "all")
    THEN OwnUpToAll(Terms(h))
    ELSE Terms(h)

\* The policy of h has an include (or a followed redirect) of name t.
Step(h, t) ==
    \E n \in 1 .. Len(Listed(h)) :
        /\ Listed(h)[n].type \in {"include", "redirect"}
        /\ Listed(h)[n].value.name = t

Next1(S) == S \cup {t \in Names : \E h \in S : Step(h, t)}

\* The names whose policies are in the graph of name h.
Graph(h) == Next1(Next1(Next1({h})))

\* Name t is the domain of an include mechanism in the graph of name h.
IncludedBy(h, t) ==
    \E g \in Graph(h) :
        \E n \in 1 .. Len(Listed(g)) :
            /\ Listed(g)[n].type = "include"
            /\ toLowerCase(Listed(g)[n].value.name) = toLowerCase(t)

\* A checkInclude that has returned without anything having been thrown.
Searched(call, run) ==
    /\ ~call.rejected
    /\ call.op = "checkInclude"
    /\ isValidDomain(objs[call.obj].domain)
    /\ call.arg # Undefined
    /\ NoFailure(run)

\* C19: a checkInclude in which nothing failed and whose target is
\* included somewhere in the graph has returned Pass.
C19_IncludedIsPass ==
    \A i \in 1 .. Len(calls) :
        (/\ Searched(calls[i], Run(calls[i]))
         /\ IncludedBy(objs[calls[i].obj].domain, calls[i].arg)) =>
            Returned(Run(calls[i]), "Pass")

IncludesOf(mechanisms) == SelectSeq(mechanisms, LAMBDA m : m.type = "include")

\* The target is the domain, in any case, of an include of the list.
NamedIn(target, mechanisms) ==
    \E n \in 1 .. Len(mechanisms) :
        /\ mechanisms[n].type = "include"
        /\ toLowerCase(mechanisms[n].value.name) = toLowerCase(target)

\* A checkInclude with a target that has returned.
Search(call, run) ==
    /\ ~call.rejected
    /\ call.op = "checkInclude"
    /\ isValidDomain(objs[call.obj].domain)
    /\ call.arg # Undefined
    /\ Done(run)

NoRedirect(run) == \A j \in 1 .. Len(run.log) : run.log[j].for # "redirect"

\* The target is named at the top level.
NamedAtTop(call, run) == NamedIn(call.arg, run.mechs)

\* The target is named in the policy of the include mechanism named by
\* the n-th include of the top level, and not at the top level.
NamedBelow(call, run, n) ==
    /\ run.mechs # <<>>
    /\ ~NamedIn(call.arg, run.mechs)
    /\ Len(IncludesOf(run.mechs)) >= n
    /\ NamedIn(call.arg, Listed(IncludesOf(run.mechs)[n].value.name))

DirectAtTop(run) ==
    /\ Returned(run, "Pass")
    /\ \A j \in 1 .. Len(run.log) : run.log[j].for \in {"check", "redirect"}
    /\ NoRedirect(run) => Len(run.log) = 1

DirectBelow(run) ==
    /\ Len(run.log) = 2
    /\ run.log[2].rrtype = "TXT"
    /\ run.log[2].for = "include"
    /\ run.log[2].host = IncludesOf(run.mechs)[1].value.name
    /\ Returned(run, IncludesOf(run.mechs)[1].prefixdesc)

MatchedLast(call, run) ==
    /\ ~call.rejected
    /\ call.op = "check"
    /\ NoFailure(run)
    /\ Tried(run) # <<>>
    /\ Last(Tried(run)).hit

MatchedChain(run) ==
    LET last == Last(Tried(run))
    IN  /\ run.val.mechanism = last.type
        /\ IF last.type = "include"
           THEN /\ Len(run.val.matched) >= 2
                /\ Last(run.val.matched) = "include"
                /\ \A n \in 1 .. (Len(run.val.matched) - 1) :
                      run.val.matched[n] # "version"
           ELSE run.val.matched = <<last.type>>

\* C22: the matched list of a check that matched an include ends with
\* 'include' after the nested matched types, and the matched list of a
\* check that matched another mechanism is that mechanism's type alone.
C22_MatchedChain ==
    \A i \in 1 .. Len(calls) :
        MatchedLast(calls[i], Run(calls[i])) => MatchedChain(Run(calls[i]))

(***************************************************************************)
(* C23.  prefetch changes when the DNS work is done, not the matching:     *)
(* whenever a check with prefetch=true on a fresh object has ended in      *)
(* Pass, Fail, SoftFail or Neutral, the check of the same domain and       *)
(* client address with prefetch=false, against the same replies of the     *)
(* resolver, ends in the same outcome, and every lookup it issues is one   *)
(* the check with prefetch issued.                                         *)
(***************************************************************************)
\* The lookups of a log, as <<name, record type>>.
Asked(log) == {<<log[j].host, log[j].rrtype>> : j \in 1 .. Len(log)}

\* The counter after one more callback of a check on a fresh object.
Counted(hist, q) ==
    (IF hist = <<>> THEN 0 ELSE Last(hist)) + (IF q.limit THEN 1 ELSE 0)

\* check(ip) on a fresh object this, run against the replies the resolver
\* has given so far: it stops where it returns, or where it asks for a
\* lookup the resolver was never asked.
RECURSIVE Alone(_, _, _)
RECURSIVE AloneStep(_, _, _, _)

AloneStep(this, ip, hist, run) ==
    IF run.st # "wait" THEN run
    ELSE IF <<Last(run.log).host, Last(run.log).rrtype>> \notin DOMAIN this.dns
    THEN run
    ELSE Alone(this, ip, Append(hist, Counted(hist, Last(run.log))))

Alone(this, ip, hist) ==
    The({AloneStep(this, ip, hist, run) :
            run \in {check([this EXCEPT !.hist = hist], ip, NewContext(0))}})

\* The check of invocation call with prefetch=false.
Lazily(call) ==
    Alone([This(call) EXCEPT !.options.prefetch = FALSE], call.arg, <<>>)

Conclusive(run) ==
    /\ run.st = "ok"
    /\ run.val.result \in {"Pass", "Fail", "SoftFail", "Neutral"}

\* A check with prefetch=true on a fresh object that has ended conclusively.
Prefetched(call, run) ==
    /\ ~call.rejected
    /\ call.op = "check"
    /\ ~Malformed(call)
    /\ call.start = 0
    /\ objs[call.obj].options.prefetch
    /\ Conclusive(run)

SameOutcome(run, lazy) ==
    /\ lazy.st = "ok"
    /\ lazy.val.result = run.val.result
    /\ Asked(lazy.log) \subseteq Asked(run.log)

\* C23: the check with prefetch=false of a conclusive check with
\* prefetch=true returns the same outcome and asks no lookup the other
\* did not ask.
C23_PrefetchSameOutcome ==
    \A i \in 1 .. Len(calls) :
        Prefetched(calls[i], Run(calls[i])) =>
            \A lazy \in {Lazily(calls[i])} : SameOutcome(Run(calls[i]), lazy)

\* A check with prefetch=true has ended conclusively after a lookup that
\* the check with prefetch=false never issues.
C23_Witness ==
    \E i \in 1 .. Len(calls) :
        /\ Prefetched(calls[i], Run(calls[i]))
        /\ Len(calls[i].hist) >= 3
        /\ \E lazy \in {Lazily(calls[i])} :
              /\ SameOutcome(Run(calls[i]), lazy)
              /\ Asked(lazy.log) # Asked(Run(calls[i]).log)

(***************************************************************************)
(* C24.  In a checkInclude without prefetch, an include whose resolution   *)
(* yields None (its policy, or a policy it redirects to, does not exist or *)
(* has no record that begins with the version tag) is skipped: the search  *)
(* goes on with the next include of the working set and does not end in    *)
(* None.  Any other failure of that resolution ends checkInclude with that *)
(* failure: a lookup that fails otherwise is the last one and gives        *)
(* TempError, a lookup refused at the limit gives PermError.               *)
(***************************************************************************)
\* Lookup j is made while the search resolves an include (policy
\* resolution, which comes first, makes no lookup for an include when
\* prefetch is off).
InSearch(run, j) == \E k \in 1 .. j : run.log[k].for = "include"

\* The search went on after lookup j, or has gone through its working set.
WentOn(run, j) ==
    /\ ~Returned(run, "None")
    /\ j < Len(run.log) \/ Returned(run, "Fail") \/ Returned(run, "PermError")
    /\ (j = Len(run.log) /\ Returned(run, "PermError")) => run.refused # <<>>

\* When the first include of the top level is skipped and a second one
\* stands in the list, that one is resolved next (unless the limit refuses
\* the lookup).
NextSibling(call, run, j) ==
    (/\ run.log[j].for = "include"
     /\ run.log[j].depth = 1
     /\ \A k \in 1 .. (j - 1) : run.log[k].for # "include"
     /\ Len(IncludesOf(run.mechs)) >= 2
     /\ run.refused = <<>>) =>
        /\ Len(run.log) > j
        /\ run.log[j + 1].rrtype = "TXT"
        /\ run.log[j + 1].for = "include"
        /\ run.log[j + 1].depth = 1
        /\ run.log[j + 1].host = IncludesOf(run.mechs)[2].value.name

SkipsNone(call, run) ==
    /\ \A j \in 1 .. Len(call.hist) :
          (InSearch(run, j) /\ NonePolicy(run.log[j].host)) =>
             /\ WentOn(run, j)
             /\ NextSibling(call, run, j)
    /\ \A j \in 1 .. Len(call.hist) :
          (/\ InSearch(run, j)
           /\ Reply(run.log[j]).error
           /\ ~NotFound(run.log[j])) =>
             /\ j = Len(run.log)
             /\ Returned(run, "TempError")
             /\ run.val.message = Reply(run.log[j]).code
    /\ (run.refused # <<>> /\ run.refused[1].for = "include") =>
          /\ Returned(run, "PermError")
          /\ run.val.message = "Limit of DNS lookups reached"

\* C24: in every search without prefetch that has returned, an include
\* that resolved to None was skipped, and a lookup that failed otherwise
\* or was refused ended the search with TempError or PermError.
C24_NoneIsSkipped ==
    \A i \in 1 .. Len(calls) :
        (/\ Search(calls[i], Run(calls[i]))
         /\ ~objs[calls[i].obj].options.prefetch) =>
            SkipsNone(calls[i], Run(calls[i]))

\* A search without prefetch skipped the first include of the top level,
\* whose name does not exist, resolved the second and has returned.
C24_Witness ==
    \E i \in 1 .. Len(calls) :
        /\ Search(calls[i], Run(calls[i]))
        /\ ~objs[calls[i].obj].options.prefetch
        /\ Len(calls[i].hist) >= 3
        /\ Run(calls[i]).log[2].for = "include"
        /\ NonePolicy(Run(calls[i]).log[2].host)
        /\ Run(calls[i]).log[3].for = "include"
        /\ Run(calls[i]).log[3].depth = 1
        /\ ~Reply(Run(calls[i]).log[3]).error

(***************************************************************************)
(* C25.  A redirect that is followed is resolved during policy resolution, *)
(* with prefetch on and off, before any mechanism is evaluated: while its   *)
(* lookup is pending, and when it has failed, no mechanism has been         *)
(* matched, and a failure of that lookup is what the check returns even     *)
(* when a mechanism written before the redirect matches the client.  The    *)
(* list that resolution returns holds the target's list at the place of     *)
(* the redirect and no redirect entry.                                      *)
(***************************************************************************)
\* What resolution makes of the policy of name h as it is published: its
\* terms up to its first all, a redirect replaced by the list of its
\* target when the policy has no all, dropped when it has one (n bounds
\* the number of redirects followed in a row).
RECURSIVE Expand(_, _)
RECURSIVE ExpandTerms(_, _, _)

ExpandTerms(terms, catchAll, n) ==
    IF terms = <<>> THEN <<>>
    ELSE IF Head(terms).type = "redirect"
    THEN (IF catchAll THEN <<>> ELSE Expand(Head(terms).value.name, n - 1))
         \o ExpandTerms(Tail(terms), catchAll, n)
    ELSE IF Head(terms).type = "all" THEN <<Head(terms)>>
    ELSE <<Head(terms)>> \o ExpandTerms(Tail(terms), catchAll, n)

Expand(h, n) ==
    IF n = 0 THEN <<>>
    ELSE ExpandTerms(Terms(h), Holds(Terms(h), "all"), n)

\* Lookup j fetches the target of a redirect of the checked domain's
\* policy (no include has been entered before it).
OfRedirect(run, j) ==
    /\ run.log[j].for = "redirect"
    /\ \A k \in 1 .. j : run.log[k].for # "include"

\* An ip4 or ip6 mechanism written in the policy of name h before its
\* redirect is the client's address.
MatchesBeforeRedirect(h, addr) ==
    \E n, p \in 1 .. Len(Terms(h)) :
        /\ n < p
        /\ Terms(h)[p].type = "redirect"
        /\ Terms(h)[n].type \in {"ip4", "ip6"}
        /\ Terms(h)[n].value.kind = addr.kind
        /\ Terms(h)[n].value.a = addr.a

RedirectFirst(call, run) ==
    /\ \A j \in 1 .. Len(run.log) :
          (/\ OfRedirect(run, j)
           /\ j > Len(call.hist) \/ Reply(run.log[j]).error) =>
             /\ run.ev = <<>>
             /\ run.mechs = <<>>
             /\ j = Len(run.log)
             /\ j <= Len(call.hist) => ReturnedFailureOf(run, run.log[j])
    /\ \A n \in 1 .. Len(run.mechs) : run.mechs[n].type # "redirect"
    /\ run.mechs # <<>> =>
          AsWritten(run.mechs)
             = AsWritten(Expand(objs[call.obj].domain, MaxBudget + 1))

\* C25: in every check, nothing is matched before the lookup of a
\* followed redirect has been answered, its failure is the Result
\* returned, and the resolved list is the policy with every followed
\* redirect replaced by its target's list.
C25_RedirectResolvedFirst ==
    \A i \in 1 .. Len(calls) :
        (/\ ~calls[i].rejected
         /\ calls[i].op = "check"
         /\ ~Malformed(calls[i])) => RedirectFirst(calls[i], Run(calls[i]))

\* A check without prefetch has returned TempError from the lookup of a
\* redirect that stands after an ip4 mechanism naming the client.
C25_Witness ==
    \E i \in 1 .. Len(calls) :
        /\ ~calls[i].rejected
        /\ calls[i].op = "check"
        /\ isValidIP(calls[i].arg)
        /\ ~objs[calls[i].obj].options.prefetch
        /\ Len(calls[i].hist) = 2
        /\ OfRedirect(Run(calls[i]), 2)
        /\ Reply(Run(calls[i]).log[2]).error
        /\ MatchesBeforeRedirect(objs[calls[i].obj].domain, parseIP(calls[i].arg))
        /\ Returned(Run(calls[i]), "TempError")

(***************************************************************************)
(* C26.  Within one check at most one DNS lookup is outstanding at any     *)
(* time, and the lookups for the a, mx and include mechanisms of a policy  *)
(* are issued in the order in which the mechanisms are declared, one       *)
(* after the other.  The policy fetch of a followed redirect is issued     *)
(* during resolution: in declared order too when prefetch is on, before    *)
(* the lookups of every mechanism of the policy when prefetch is off.      *)
(***************************************************************************)
\* Lookups issued and not yet answered.
Outstanding(call, run) == Len(run.log) - Len(call.hist)

\* Lookup q serves a mechanism, or the redirect, written in the policy of
\* the checked domain itself.
Own(call, q) ==
    /\ q.from = objs[call.obj].domain
    /\ \/ q.for \in {"a", "mx"} /\ q.depth = 0
       \/ q.for \in {"include", "redirect"} /\ q.depth = 1

\* The terms of the policy that lookup q may serve.
Serves(call, q) ==
    {n \in 1 .. Len(Terms(q.from)) :
        /\ Terms(q.from)[n].type = q.for
        /\ \/ q.for = "mx"
           \/ Terms(q.from)[n].value.name = q.host
           \/ q.for = "a" /\ Terms(q.from)[n].value.name = "" /\ q.host = q.from}

\* The place in the policy of the term lookup q serves (the first, when
\* several terms are alike).
Pos(call, q) ==
    IF Serves(call, q) = {} THEN 0
    ELSE CHOOSE n \in Serves(call, q) : \A m \in Serves(call, q) : n <= m

\* When the lookup is due: a redirect's fetch comes before everything when
\* prefetch is off.
Due(call, q) ==
    IF q.for = "redirect" /\ ~objs[call.obj].options.prefetch
    THEN 0
    ELSE Pos(call, q)

OneAtATime(call, run) ==
    /\ Outstanding(call, run) \in {0, 1}
    /\ Outstanding(call, run) = 1 <=> run.st = "wait"
    /\ \A j \in 1 .. Len(run.log) :
          Own(call, run.log[j]) => Pos(call, run.log[j]) > 0
    /\ \A j, k \in 1 .. Len(run.log) :
          (/\ j < k
           /\ Own(call, run.log[j])
           /\ Own(call, run.log[k])) =>
              Due(call, run.log[j]) <= Due(call, run.log[k])

\* C26: in every check one lookup at most is outstanding, and the lookups
\* for the checked domain's own mechanisms are issued in declared order,
\* the fetch of a followed redirect coming first when prefetch is off.
C26_OneLookupAtATime ==
    \A i \in 1 .. Len(calls) :
        (/\ ~calls[i].rejected
         /\ calls[i].op = "check"
         /\ ~Malformed(calls[i])) => OneAtATime(calls[i], Run(calls[i]))

\* A check without prefetch has fetched the target of a redirect and
\* afterwards looked up the address of an a mechanism that is declared
\* before the redirect.
C26_Witness ==
    \E i \in 1 .. Len(calls) :
        /\ ~calls[i].rejected
        /\ calls[i].op = "check"
        /\ ~objs[calls[i].obj].options.prefetch
        /\ Done(Run(calls[i]))
        /\ \E j, k \in 1 .. Len(Run(calls[i]).log) :
              /\ j < k
              /\ Own(calls[i], Run(calls[i]).log[j])
              /\ Own(calls[i], Run(calls[i]).log[k])
              /\ Run(calls[i]).log[j].for = "redirect"
              /\ Run(calls[i]).log[k].for = "a"
              /\ Pos(calls[i], Run(calls[i]).log[k])
                    < Pos(calls[i], Run(calls[i]).log[j])

\* C26 as it was stated: the lookups are issued in the order in which the
\* terms they serve are declared.
C26_DeclaredOrder ==
    \A i \in 1 .. Len(calls) :
        (/\ ~calls[i].rejected
         /\ calls[i].op = "check"
         /\ ~Malformed(calls[i])) =>
            \A j, k \in 1 .. Len(Run(calls[i]).log) :
                (/\ j < k
                 /\ Own(calls[i], Run(calls[i]).log[j])
                 /\ Own(calls[i], Run(calls[i]).log[k])) =>
                    Pos(calls[i], Run(calls[i]).log[j])
                       <= Pos(calls[i], Run(calls[i]).log[k])

(***************************************************************************)
(* C27.  An a or mx mechanism without a domain value is resolved against   *)
(* the domain of the policy in which it is declared (the included domain,  *)
(* the redirect target), not against the domain of the check: the name of  *)
(* every address lookup of an a mechanism, and of every MX lookup, is the  *)
(* value of an a (mx) term of a policy fetched before, or the name of a    *)
(* policy fetched before that has an a (mx) term without value.            *)
(***************************************************************************)
\* The names whose policies were fetched before lookup k.
FetchedBefore(log, k) ==
    {log[j].host : j \in {m \in 1 .. (k - 1) : log[m].rrtype = "TXT"}}

\* The policy of name p declares a term of this type for which name h is
\* looked up.
Declares(p, type, h) ==
    \E n \in 1 .. Len(Terms(p)) :
        /\ Terms(p)[n].type = type
        /\ \/ Terms(p)[n].value.name = h
           \/ Terms(p)[n].value.name = "" /\ h = p

\* Lookup q is the first lookup of an a or mx mechanism.
OfMechanism(q) ==
    \/ q.for = "a" /\ q.rrtype \in {"A", "AAAA"}
    \/ q.for = "mx" /\ q.rrtype = "MX"

AgainstOwnPolicy(run) ==
    \A k \in 1 .. Len(run.log) :
        OfMechanism(run.log[k]) =>
            \E p \in FetchedBefore(run.log, k) :
                Declares(p, run.log[k].for, run.log[k].host)

\* C27: in every invocation, every lookup of an a or mx mechanism asks
\* for the mechanism's value or, when it has none, for the name of the
\* policy that declares it.
C27_OwnPolicyDomain ==
    \A i \in 1 .. Len(calls) :
        ~calls[i].rejected => AgainstOwnPolicy(Run(calls[i]))

\* A check has looked up the address of an included name for an a
\* mechanism without value in the included policy, the policy of the
\* checked domain having no a mechanism.
C27_Witness ==
    \E i \in 1 .. Len(calls) :
        /\ ~calls[i].rejected
        /\ calls[i].op = "check"
        /\ ~Holds(Terms(objs[calls[i].obj].domain), "a")
        /\ \E k \in 1 .. Len(calls[i].hist) :
              /\ Run(calls[i]).log[k].for = "a"
              /\ Run(calls[i]).log[k].host # objs[calls[i].obj].domain
              /\ Declares(Run(calls[i]).log[k].host, "a", Run(calls[i]).log[k].host)
              /\ Holds(Terms(objs[calls[i].obj].domain), "include")

(***************************************************************************)
(* C28.  An ip4 or ip6 mechanism declared without a prefix length is       *)
(* given the prefix /32 or /128 and matches exactly when the client's      *)
(* address is the declared address; an ip4 mechanism never matches an      *)
(* IPv6 client nor an ip6 mechanism an IPv4 client; neither is resolved:   *)
(* a check of a policy made of ip4, ip6 and all mechanisms issues the      *)
(* policy fetch and no other lookup.                                       *)
(***************************************************************************)
\* The n-th mechanism of the resolved list as it is written in its policy.
Written(call, n) == Expand(objs[call.obj].domain, MaxBudget + 1)[n]

\* The address family an ip4 or ip6 mechanism is about.
Family(type) == IF type = "ip4" THEN "ipv4" ELSE "ipv6"

ExactHost(call, run, n) ==
    LET addr == parseIP(call.arg)
        written == Written(call, n)
        hit == Tried(run)[n].hit
    IN  /\ run.mechs[n].address[2] = Bits(written.value.kind)
        /\ hit <=> /\ addr.kind = written.value.kind
                   /\ addr.a = written.value.a
        /\ addr.kind # Family(written.type) => ~hit
        /\ ~Resolved(run.mechs[n])

\* The policy of name h has ip4, ip6 and all mechanisms only.
AddressesOnly(h) ==
    /\ Len(Terms(h)) >= 2
    /\ \A n \in 1 .. Len(Terms(h)) :
          Terms(h)[n].type \in {"version", "ip4", "ip6", "all"}

\* C28: in every check, an ip4 or ip6 mechanism written without prefix
\* length matched exactly when the client's address is its address, and a
\* policy made of such mechanisms cost one lookup.
C28_ExactHostMatch ==
    \A i \in 1 .. Len(calls) :
        (/\ ~calls[i].rejected
         /\ calls[i].op = "check"
         /\ ~Malformed(calls[i])) =>
            /\ \A n \in 1 .. Len(Tried(Run(calls[i]))) :
                  (/\ Tried(Run(calls[i]))[n].type \in {"ip4", "ip6"}
                   /\ ~hasSlash(Written(calls[i], n).value)) =>
                      ExactHost(calls[i], Run(calls[i]), n)
            /\ AddressesOnly(objs[calls[i].obj].domain) =>
                  /\ Len(Run(calls[i]).log) = 1
                  /\ Done(Run(calls[i]))

\* A check of an IPv4 client has returned Fail after an ip6 mechanism with
\* the client's number and an ip4 mechanism with another address did not
\* match.
C28_Witness ==
    \E i \in 1 .. Len(calls) :
        /\ ~calls[i].rejected
        /\ calls[i].op = "check"
        /\ isValidIP(calls[i].arg)
        /\ parseIP(calls[i].arg).kind = "ipv4"
        /\ AddressesOnly(objs[calls[i].obj].domain)
        /\ Returned(Run(calls[i]), "Fail")
        /\ \E n, m \in 1 .. Len(Tried(Run(calls[i]))) :
              /\ Tried(Run(calls[i]))[n].type = "ip6"
              /\ Written(calls[i], n).value.a = parseIP(calls[i].arg).a
              /\ ~Tried(Run(calls[i]))[n].hit
              /\ Tried(Run(calls[i]))[m].type = "ip4"
              /\ ~Tried(Run(calls[i]))[m].hit

(***************************************************************************)
(* C29.  With prefetch off, a check issues no lookup for an a, mx or       *)
(* include mechanism that stands after the first matching mechanism of     *)
(* the list being evaluated: when nothing failed, the a, mx and include    *)
(* mechanisms a check has looked up are, one for one, those match() was    *)
(* asked about, and at the top level those are the mechanisms up to the    *)
(* first match.  Only the target of a followed redirect is fetched         *)
(* wherever the redirect stands.                                           *)
(***************************************************************************)
\* The lookups that start the resolution of a mechanism of this type.
Fetches(run, type) ==
    {j \in 1 .. Len(run.log) :
        /\ run.log[j].for = type
        /\ run.log[j].rrtype = (CASE type = "a" -> run.log[j].rrtype
                                  [] type = "mx" -> "MX"
                                  [] type = "include" -> "TXT")
        /\ type = "a" => run.log[j].rrtype \in {"A", "AAAA"}}

\* The mechanisms of this type that match() was asked about.
Asks(run, type) == {n \in 1 .. Len(run.ev) : run.ev[n].type = type}

\* A check without prefetch that has returned, nothing having failed.
LazyCheck(call, run) ==
    /\ ~call.rejected
    /\ call.op = "check"
    /\ ~Malformed(call)
    /\ ~objs[call.obj].options.prefetch
    /\ NoFailure(run)

\* The top-level evaluation stopped at the first match.
StoppedAtMatch(run) ==
    /\ \A n \in 1 .. (Len(Tried(run)) - 1) : ~Tried(run)[n].hit
    /\ Len(Tried(run)) < Len(run.mechs) => Last(Tried(run)).hit

NothingAfterMatch(run) ==
    /\ \A type \in {"a", "mx", "include"} :
          Cardinality(Fetches(run, type)) = Cardinality(Asks(run, type))
    /\ StoppedAtMatch(run)

\* C29: a check without prefetch in which nothing failed has looked up
\* exactly the a, mx and include mechanisms that were tried, and has tried
\* none after the first match.
C29_NothingAfterMatch ==
    \A i \in 1 .. Len(calls) :
        LazyCheck(calls[i], Run(calls[i])) => NothingAfterMatch(Run(calls[i]))

\* A check without prefetch has matched a mechanism that stands before an
\* a mechanism and an include mechanism, and has issued one lookup only.
C29_Witness ==
    \E i \in 1 .. Len(calls) :
        /\ LazyCheck(calls[i], Run(calls[i]))
        /\ Len(Run(calls[i]).log) = 1
        /\ Last(Tried(Run(calls[i]))).hit
        /\ \E n, m \in (Len(Tried(Run(calls[i]))) + 1) .. Len(Run(calls[i]).mechs) :
              /\ Run(calls[i]).mechs[n].type = "a"
              /\ Run(calls[i]).mechs[m].type = "include"

(***************************************************************************)
(* C30.  One check issues at most maxDNS * maxDNS lookups in all: at most  *)
(* maxDNS budgeted ones, and after the MX lookup of each mx mechanism      *)
(* fewer than maxDNS unbudgeted ones, one per exchange.                    *)
(***************************************************************************)
\* The unbudgeted lookups that follow the j-th lookup without a budgeted one
\* in between.
Trailing(log, j) ==
    {k \in (j + 1) .. Len(log) : \A m \in (j + 1) .. k : ~log[m].limit}

LookupsBounded(call, run) ==
    LET maxDNS == objs[call.obj].options.maxDNS
    IN  /\ Cardinality(Budgeted(run.log, Len(run.log))) <= maxDNS
        /\ \A j \in 1 .. Len(run.log) :
              /\ run.log[j].rrtype = "MX" =>
                    /\ run.log[j].limit
                    /\ Cardinality(Trailing(run.log, j)) < maxDNS
              /\ ~run.log[j].limit =>
                    \E m \in 1 .. (j - 1) :
                        run.log[m].rrtype = "MX" /\ j \in Trailing(run.log, m)
        /\ Len(run.log) <= maxDNS * maxDNS

IncludesInGraph(h) ==
    UNION {{<<g, n>> : n \in {m \in 1 .. Len(Listed(g)) :
                                  Listed(g)[m].type = "include"}} :
             g \in Graph(h)}

\* The policies fetched for include mechanisms.
IncludeFetches(run) ==
    {j \in 1 .. Len(run.log) : run.log[j].for = "include" /\ run.log[j].limit}

\* C31: a checkInclude fetches no more policies for include mechanisms
\* than there are include mechanisms in the graph of its domain.
C31_EachIncludeOnce ==
    \A i \in 1 .. Len(calls) :
        (/\ ~calls[i].rejected
         /\ calls[i].op = "checkInclude"
         /\ isValidDomain(objs[calls[i].obj].domain)) =>
            Cardinality(IncludeFetches(Run(calls[i])))
                <= Cardinality(IncludesInGraph(objs[calls[i].obj].domain))

====
